---- MODULE Spec2Model ----
(***************************************************************************)
(* OpenSoT aggregation layer: constraints::Aggregated, tasks::Aggregated   *)
(* and OptvarHelper, modelled as state machines.                           *)
(*                                                                         *)
(* Numbers are integers (the code uses double; no property below depends   *)
(* on rounding).  A matrix is a record [cols, rows] whose rows field is a  *)
(* sequence of rows, so that a matrix with no rows keeps its column count, *)
(* as an Eigen matrix does.  A failed assert aborts the process.           *)
(***************************************************************************)
EXTENDS Integers, Sequences, FiniteSets, TLC

\* ------------------------------------------------------------------ bounds
\* dimension of the decision variable used by the well-sized objects
XSize == 2
\* longest child list handed to an AggregatedConstraint constructor
MaxChildren == 2
\* longest child list handed to an AggregatedTask constructor
MaxTasks == 2
\* most constraints attached to an AggregatedTask itself
MaxAttached == 1
\* longest (name,size) list handed to the OptvarHelper constructor
MaxPairs == 3
\* largest segment size in an OptvarHelper pair
MaxSize == 2

\* std::numeric_limits<double>::infinity() and ::max(), as integers larger
\* than every other number of the model
Infinity == 1000000
DblMax == 999999

\* the state vectors x handed to update(x), by name
Xs == {0, 1}

\* ----------------------------------------------------------- linear algebra
Min(a, b) == IF a <= b THEN a ELSE b
Max(a, b) == IF a >= b THEN a ELSE b

Const(n, v) == [i \in 1..n |-> v]
Ramp(n, a, s) == [i \in 1..n |-> a + s * i]

Mat(c, rs) == [cols |-> c, rows |-> rs]
NRows(M) == Len(M.rows)

\* -1.0 * v and -1.0 * M
Neg(v) == [i \in 1..Len(v) |-> 0 - v[i]]
NegMat(M) == [cols |-> M.cols, rows |-> [r \in 1..Len(M.rows) |-> Neg(M.rows[r])]]

\* pile(A,B): B's rows below A's, A's column count kept; and its vector form
pile(A, B) == [cols |-> A.cols, rows |-> A.rows \o B.rows]
pileVec(a, b) == a \o b

\* ------------------------------------------------------ aggregation policy
EQUALITIES_TO_INEQUALITIES == "EQUALITIES_TO_INEQUALITIES"
UNILATERAL_TO_BILATERAL == "UNILATERAL_TO_BILATERAL"
\* a policy is the set of the flags whose bit is set
Policies == SUBSET {EQUALITIES_TO_INEQUALITIES, UNILATERAL_TO_BILATERAL}

\* ------------------------------------------------- the child constraints
\* The concrete constraints are external to the aggregation code.  Each child
\* object is one of the kinds below; its accessors return what ConstraintRep
\* gives for the x of its last update(x).
CKinds == {"empty", "boxA", "boxB", "eq1", "eq2", "ineqU", "ineqL", "ineqB",
           "mixed", "dyn", "boxLow", "boxUp", "boxLong", "eqBad", "wide"}

BaseRep(n) ==
  [x_size |-> n, lowerBound |-> <<>>, upperBound |-> <<>>,
   Aeq |-> Mat(0, <<>>), beq |-> <<>>,
   Aineq |-> Mat(0, <<>>), bLowerBound |-> <<>>, bUpperBound |-> <<>>]

ConstraintRep(kind, x) ==
  LET n == XSize
      B == BaseRep(n)
  IN CASE kind = "empty" -> B
       [] kind = "boxA" ->
            [B EXCEPT !.lowerBound = Const(n, -2), !.upperBound = Const(n, 2)]
       [] kind = "boxB" ->
            [B EXCEPT !.lowerBound = Ramp(n, x - 5, 2),
                      !.upperBound = Ramp(n, 5 - x, -2)]
       [] kind = "eq1" ->
            [B EXCEPT !.Aeq = Mat(n, <<Ramp(n, x, 1)>>), !.beq = <<3 + x>>]
       [] kind = "eq2" ->
            [B EXCEPT !.Aeq = Mat(n, <<Const(n, 1), Ramp(n, -1, 1)>>),
                      !.beq = <<4, -4 - x>>]
       [] kind = "ineqU" ->
            [B EXCEPT !.Aineq = Mat(n, <<Ramp(n, 1, 2)>>),
                      !.bUpperBound = <<5 + x>>]
       [] kind = "ineqL" ->
            [B EXCEPT !.Aineq = Mat(n, <<Ramp(n, 2, -1)>>),
                      !.bLowerBound = <<-6 - x>>]
       [] kind = "ineqB" ->
            [B EXCEPT !.Aineq = Mat(n, <<Const(n, 2), Ramp(n, 0, 3)>>),
                      !.bLowerBound = <<-7, -8>>,
                      !.bUpperBound = <<7 + x, 8>>]
       [] kind = "mixed" ->
            [B EXCEPT !.lowerBound = Ramp(n, -1, -1),
                      !.upperBound = Ramp(n, x, 1),
                      !.Aeq = Mat(n, <<Ramp(n, 3, 1)>>), !.beq = <<9>>,
                      !.Aineq = Mat(n, <<Ramp(n, -2, 1)>>),
                      !.bLowerBound = <<-10>>, !.bUpperBound = <<10>>]
       \* a constraint whose row count follows x (active pairs come and go)
       [] kind = "dyn" ->
            IF x = 0 THEN B
            ELSE [B EXCEPT !.Aineq = Mat(n, <<Const(n, 4)>>),
                           !.bLowerBound = <<-11>>, !.bUpperBound = <<11>>]
       \* children that break the Constraint contract
       [] kind = "boxLow" -> [B EXCEPT !.lowerBound = Const(n, -3)]
       [] kind = "boxUp" -> [B EXCEPT !.upperBound = Const(n, 3 + x)]
       [] kind = "boxLong" ->
            [B EXCEPT !.lowerBound = Const(n + 1, -1),
                      !.upperBound = Const(n + 1, 1)]
       [] kind = "eqBad" ->
            [B EXCEPT !.Aeq = Mat(n, <<Const(n, 1)>>), !.beq = <<1, 2>>]
       \* a child over a decision variable of another size
       [] kind = "wide" ->
            [BaseRep(n + 1) EXCEPT !.lowerBound = Const(n + 1, -4),
                                   !.upperBound = Const(n + 1, 4),
                                   !.Aeq = Mat(n + 1, <<Const(n + 1, 1)>>),
                                   !.beq = <<x>>]

\* child lists of at most k entries; the same object may be listed twice
RECURSIVE SeqsUpTo(_, _)
SeqsUpTo(S, k) ==
  IF k = 0 THEN {<<>>}
  ELSE LET P == SeqsUpTo(S, k - 1)
       IN P \cup {Append(s, e) : s \in {p \in P : Len(p) = k - 1}, e \in S}

\* ------------------------------------- constraints::Aggregated::generateAll
\* The merged fields of an aggregate, with err naming the assert that failed
\* (the source line of the assert), "" while none has.
Fail(acc, tag) == [acc EXCEPT !.err = tag]

\* (a variant that resizes nothing: the merge piles onto the fields as they are)
ResetMerged_Keep(cur, n) ==
  IF DOMAIN cur = {} THEN
    [lowerBound |-> <<>>, upperBound |-> <<>>,
     Aeq |-> Mat(n, <<>>), beq |-> <<>>,
     Aineq |-> Mat(n, <<>>), bLowerBound |-> <<>>, bUpperBound |-> <<>>,
     err |-> ""]
  ELSE [cur EXCEPT !.err = "", !.Aeq.cols = n, !.Aineq.cols = n]

\* (a variant that resets the box and the equality block only)
ResetMerged_KeepIneq(cur, n) ==
  [lowerBound |-> <<>>, upperBound |-> <<>>,
   Aeq |-> Mat(n, <<>>), beq |-> <<>>,
   Aineq |-> IF DOMAIN cur = {} THEN Mat(n, <<>>) ELSE Mat(n, cur.Aineq.rows),
   bLowerBound |-> IF DOMAIN cur = {} THEN <<>> ELSE cur.bLowerBound,
   bUpperBound |-> IF DOMAIN cur = {} THEN <<>> ELSE cur.bUpperBound,
   err |-> ""]

\* resetting all internal data
ResetMerged(cur, n) ==
  [lowerBound |-> <<>>, upperBound |-> <<>>,
   Aeq |-> Mat(n, <<>>), beq |-> <<>>,
   Aineq |-> Mat(n, <<>>), bLowerBound |-> <<>>, bUpperBound |-> <<>>,
   err |-> ""]

\* (a variant with min and max exchanged)
IntersectBounds_Swapped(acc, b, n) ==
  [acc EXCEPT
     !.upperBound = [i \in 1..n |-> Max(acc.upperBound[i], b.upperBound[i])],
     !.lowerBound = [i \in 1..n |-> Min(acc.lowerBound[i], b.lowerBound[i])]]

\* the element-wise merge of a later child's box into the current one
IntersectBounds(acc, b, n) ==
  [acc EXCEPT
     !.upperBound = [i \in 1..n |-> Min(acc.upperBound[i], b.upperBound[i])],
     !.lowerBound = [i \in 1..n |-> Max(acc.lowerBound[i], b.lowerBound[i])]]

\* (a variant that takes whatever side the child gives)
MergeBounds_Adopt(acc, b, n) ==
  IF Len(b.upperBound) # 0 \/ Len(b.lowerBound) # 0
  THEN IF Len(acc.upperBound) = 0 \/ Len(acc.lowerBound) = 0
          \/ Len(b.upperBound) # n \/ Len(b.lowerBound) # n
       THEN [acc EXCEPT !.upperBound = b.upperBound,
                        !.lowerBound = b.lowerBound]
       ELSE IntersectBounds(acc, b, n)
  ELSE acc

\* copying lowerBound, upperBound
MergeBounds(acc, b, n) ==
  IF Len(b.upperBound) # 0 \/ Len(b.lowerBound) # 0
  THEN IF Len(b.upperBound) # n THEN Fail(acc, "assert@109")
       ELSE IF Len(b.lowerBound) # n THEN Fail(acc, "assert@110")
       ELSE IF Len(acc.upperBound) = 0 \/ Len(acc.lowerBound) = 0
            THEN IF Len(acc.upperBound) # Len(acc.lowerBound)
                 THEN Fail(acc, "assert@114")
                 ELSE [acc EXCEPT !.upperBound = b.upperBound,
                                  !.lowerBound = b.lowerBound]
            ELSE IntersectBounds(acc, b, n)
  ELSE acc

\* (a variant that leaves the lower bound out in bilateral mode)
FoldEq_NoLower(acc, b, policy) ==
  IF acc.Aineq.cols # b.Aeq.cols THEN Fail(acc, "assert@137")
  ELSE LET a1 == [acc EXCEPT !.Aineq = pile(@, b.Aeq),
                             !.bUpperBound = pileVec(@, b.beq)]
       IN IF UNILATERAL_TO_BILATERAL \in policy
          THEN a1
          ELSE [a1 EXCEPT !.Aineq = pile(@, NegMat(b.Aeq)),
                          !.bUpperBound = pileVec(@, Neg(b.beq))]

\* transforming equalities to inequalities: Aeq*x = beq becomes
\* beq <= Aeq*x <= beq, or -Aeq*x <= -beq && Aeq*x <= beq
FoldEq(acc, b, policy) ==
  IF acc.Aineq.cols # b.Aeq.cols THEN Fail(acc, "assert@137")
  ELSE LET a1 == [acc EXCEPT !.Aineq = pile(@, b.Aeq),
                             !.bUpperBound = pileVec(@, b.beq)]
       IN IF UNILATERAL_TO_BILATERAL \in policy
          THEN [a1 EXCEPT !.bLowerBound = pileVec(@, b.beq)]
          ELSE [a1 EXCEPT !.Aineq = pile(@, NegMat(b.Aeq)),
                          !.bUpperBound = pileVec(@, Neg(b.beq))]

\* (a variant that puts the child's block on top of the rows merged so far)
StackEq_OnTop(acc, b) ==
  IF acc.Aeq.cols # b.Aeq.cols THEN Fail(acc, "assert@151")
  ELSE [acc EXCEPT !.Aeq = pile(b.Aeq, @), !.beq = pileVec(b.beq, @)]

\* the equality block kept as an equality block
StackEq(acc, b) ==
  IF acc.Aeq.cols # b.Aeq.cols THEN Fail(acc, "assert@151")
  ELSE [acc EXCEPT !.Aeq = pile(@, b.Aeq), !.beq = pileVec(@, b.beq)]

\* (a variant that folds the block and keeps it as an equality block too)
MergeEq_FoldAndStack(acc, b, policy) ==
  IF NRows(b.Aeq) # 0 \/ Len(b.beq) # 0
  THEN IF NRows(b.Aeq) # Len(b.beq) THEN Fail(acc, "assert@132")
       ELSE IF EQUALITIES_TO_INEQUALITIES \in policy
            THEN LET f == FoldEq(acc, b, policy)
                 IN IF f.err # "" THEN f ELSE StackEq(f, b)
            ELSE StackEq(acc, b)
  ELSE acc

\* copying Aeq, beq
MergeEq(acc, b, policy) ==
  IF NRows(b.Aeq) # 0 \/ Len(b.beq) # 0
  THEN IF NRows(b.Aeq) # Len(b.beq) THEN Fail(acc, "assert@132")
       ELSE IF EQUALITIES_TO_INEQUALITIES \in policy
            THEN FoldEq(acc, b, policy)
            ELSE StackEq(acc, b)
  ELSE acc

\* setOnes(r) * infinity() for a missing upper side
FillUpper(r) == Const(r, Infinity)

\* (a variant that fills the lower side with the largest value)
FillLower_PlusMax(r) == Const(r, DblMax)

\* setOnes(r) * -max() for a missing lower side
FillLower(r) == Const(r, 0 - DblMax)

\* (a variant that keeps the sign of the lower bound)
SplitBilateral_NoFlip(A, bu, bl) ==
  [A |-> pile(A, NegMat(A)), bu |-> pileVec(bu, bl)]

\* l < Ax < u becomes Ax < u and -Ax < -l
SplitBilateral(A, bu, bl) ==
  [A |-> pile(A, NegMat(A)), bu |-> pileVec(bu, Neg(bl))]

\* The sidedness normalisation of a child's inequality block: the local copies
\* boundAineq, boundbUpperBound, boundbLowerBound after lines 167-196.
NormalizeIneq(b, policy) ==
  LET A == b.Aineq
      bu == b.bUpperBound
      bl == b.bLowerBound
      r == NRows(A)
      out(A2, bu2, bl2, e) == [A |-> A2, bu |-> bu2, bl |-> bl2, err |-> e]
  IN IF UNILATERAL_TO_BILATERAL \in policy
     THEN IF Len(bu) = 0
          THEN IF r # Len(bl) THEN out(A, bu, bl, "assert@170")
               ELSE out(A, FillUpper(r), bl, "")
          ELSE IF Len(bl) = 0
          THEN IF r # Len(bu) THEN out(A, bu, bl, "assert@174")
               ELSE out(A, bu, FillLower(r), "")
          ELSE IF r # Len(bl) THEN out(A, bu, bl, "assert@178")
               ELSE IF r # Len(bu) THEN out(A, bu, bl, "assert@179")
               ELSE out(A, bu, bl, "")
     ELSE IF Len(bu) = 0
          THEN IF r # Len(bl) THEN out(NegMat(A), bu, Neg(bl), "assert@187")
               ELSE out(NegMat(A), bu, Neg(bl), "")
          ELSE IF Len(bl) = 0
          THEN IF r # Len(bu) THEN out(A, bu, bl, "assert@189")
               ELSE out(A, bu, bl, "")
          ELSE IF r # Len(bl) THEN out(A, bu, bl, "assert@191")
               ELSE IF r # Len(bu) THEN out(A, bu, bl, "assert@192")
               ELSE LET sp == SplitBilateral(A, bu, bl)
                    IN out(sp.A, sp.bu, bl, "")

\* (a variant that takes every child to expose an inequality block)
MergeIneq_NoGuard(acc, b, policy, n) ==
  IF ~(NRows(b.Aineq) > 0) THEN Fail(acc, "assert@162")
       ELSE IF ~(Len(b.bLowerBound) > 0 \/ Len(b.bUpperBound) > 0)
            THEN Fail(acc, "assert@163")
       ELSE IF b.Aineq.cols # n THEN Fail(acc, "assert@165")
       ELSE LET nb == NormalizeIneq(b, policy)
            IN IF nb.err # "" THEN Fail(acc, nb.err)
               ELSE IF acc.Aineq.cols # nb.A.cols THEN Fail(acc, "assert@198")
               ELSE LET a1 == [acc EXCEPT !.Aineq = pile(@, nb.A),
                                          !.bUpperBound = pileVec(@, nb.bu)]
                    IN IF UNILATERAL_TO_BILATERAL \in policy
                       THEN [a1 EXCEPT !.bLowerBound = pileVec(@, nb.bl)]
                       ELSE a1

\* copying Aineq, bUpperBound, bLowerBound
MergeIneq(acc, b, policy, n) ==
  IF NRows(b.Aineq) # 0 \/ Len(b.bUpperBound) # 0 \/ Len(b.bLowerBound) # 0
  THEN IF ~(NRows(b.Aineq) > 0) THEN Fail(acc, "assert@162")
       ELSE IF ~(Len(b.bLowerBound) > 0 \/ Len(b.bUpperBound) > 0)
            THEN Fail(acc, "assert@163")
       ELSE IF b.Aineq.cols # n THEN Fail(acc, "assert@165")
       ELSE LET nb == NormalizeIneq(b, policy)
            IN IF nb.err # "" THEN Fail(acc, nb.err)
               ELSE IF acc.Aineq.cols # nb.A.cols THEN Fail(acc, "assert@198")
               ELSE LET a1 == [acc EXCEPT !.Aineq = pile(@, nb.A),
                                          !.bUpperBound = pileVec(@, nb.bu)]
                    IN IF UNILATERAL_TO_BILATERAL \in policy
                       THEN [a1 EXCEPT !.bLowerBound = pileVec(@, nb.bl)]
                       ELSE a1
  ELSE acc

\* one iteration of the loop over _bounds; an assert that fails ends the run
MergeChild(acc, b, policy, n) ==
  LET a1 == MergeBounds(acc, b, n)
      a2 == IF a1.err # "" THEN a1 ELSE MergeEq(a1, b, policy)
  IN IF a2.err # "" THEN a2 ELSE MergeIneq(a2, b, policy, n)

RECURSIVE MergeAll(_, _, _, _)
MergeAll(acc, reps, policy, n) ==
  IF reps = <<>> \/ acc.err # "" THEN acc
  ELSE MergeAll(MergeChild(acc, Head(reps), policy, n), Tail(reps), policy, n)

\* checking everything went fine
FinalCheck(acc, policy, n) ==
  IF acc.err # "" THEN acc
  ELSE IF ~(Len(acc.lowerBound) = 0 \/ Len(acc.lowerBound) = n)
       THEN Fail(acc, "assert@209")
  ELSE IF ~(Len(acc.upperBound) = 0 \/ Len(acc.upperBound) = n)
       THEN Fail(acc, "assert@210")
  ELSE IF NRows(acc.Aeq) # Len(acc.beq) THEN Fail(acc, "assert@212")
  ELSE IF NRows(acc.Aeq) > 0 /\ acc.Aeq.cols # n THEN Fail(acc, "assert@214")
  ELSE IF NRows(acc.Aineq) # Len(acc.bUpperBound) THEN Fail(acc, "assert@216")
  ELSE IF UNILATERAL_TO_BILATERAL \notin policy
          /\ NRows(acc.Aineq) # Len(acc.bLowerBound)
       THEN Fail(acc, "assert@218")
  ELSE IF NRows(acc.Aineq) > 0 /\ acc.Aineq.cols # n THEN Fail(acc, "assert@220")
  ELSE acc

\* what the accessors of the children in the list return, in list order
ChildReps(bounds, data) ==
  [i \in 1..Len(bounds) |-> data[bounds[i]]]

\* Aggregated::generateAll() on an aggregate with merged fields cur
generateAll(cur, bounds, data, policy, n) ==
  FinalCheck(MergeAll(ResetMerged(cur, n), ChildReps(bounds, data), policy, n),
             policy, n)

\* (a variant in which the loop's locals are references into the child, so
\* that the sidedness normalisation is written back to it)
ChildAfterMerge_Aliased(b, policy) ==
  LET nb == NormalizeIneq(b, policy)
  IN [b EXCEPT !.Aineq = nb.A, !.bUpperBound = nb.bu, !.bLowerBound = nb.bl]

\* the child after one iteration of the loop: its fields are read through
\* the getters into local copies (boundUpperBound ... boundbLowerBound), and
\* only the copies are written
ChildAfterMerge(b, policy) == b

\* the children after generateAll(): the loop has touched the listed children
\* up to the first failed assert
childrenAfterGenerateAll(bounds, data, policy, n) ==
  LET reps == ChildReps(bounds, data)
      Reached(i) ==
        MergeAll(ResetMerged(<<>>, n), SubSeq(reps, 1, i - 1), policy, n).err = ""
  IN [k \in DOMAIN data |->
        IF \E i \in 1..Len(bounds) : bounds[i] = k /\ Reached(i)
        THEN ChildAfterMerge(data[k], policy) ELSE data[k]]

\* (a variant that checks nothing)
checkSizes_Skip(bounds, data, n) == TRUE

\* Aggregated::checkSizes(): TRUE when no assert fails
checkSizes(bounds, data, n) ==
  \A i \in 1..Len(bounds) : data[bounds[i]].x_size = n

\* the loop of Aggregated::update(x): every listed child is updated with x
updateChildren(bounds, world, x) ==
  [k \in DOMAIN world |->
     IF \E i \in 1..Len(bounds) : bounds[i] = k THEN x ELSE world[k]]

\* the fields of the children after that loop: each listed child has
\* recomputed its fields from x
updateChildrenData(bounds, data, x) ==
  [k \in DOMAIN data |->
     IF \E i \in 1..Len(bounds) : bounds[i] = k THEN ConstraintRep(k, x)
     ELSE data[k]]

\* the calls one operation makes, in order
Step(s, who, x) == [step |-> s, who |-> who, x |-> x]
UpdateSteps(bounds, x) ==
  [i \in 1..Len(bounds) |-> Step("update", bounds[i], x)]
    \o <<Step("generateAll", "", -1)>>

\* ------------------------------------------------------- the child tasks
\* yarp::math: matrix product, scalar multiple, matrix times vector
RECURSIVE Dot(_, _, _)
Dot(u, v, k) == IF k = 0 THEN 0 ELSE u[k] * v[k] + Dot(u, v, k - 1)
Column(M, c) == [j \in 1..NRows(M) |-> M.rows[j][c]]
MatMul(W, M) ==
  Mat(M.cols, [r \in 1..NRows(W) |->
                 [c \in 1..M.cols |-> Dot(W.rows[r], Column(M, c), W.cols)]])
Scale(W, k) ==
  Mat(W.cols, [r \in 1..NRows(W) |-> [c \in 1..W.cols |-> W.rows[r][c] * k]])
MatVec(W, v) == [r \in 1..NRows(W) |-> Dot(W.rows[r], v, W.cols)]
\* yarp::math::cat on vectors
cat(a, b) == a \o b
Eye(k) == Mat(k, [r \in 1..k |-> [c \in 1..k |-> IF r = c THEN 1 ELSE 0]])

\* The concrete tasks are external too.  A task's constraint list holds
\* constraint objects, named by their kind.
TKinds == {"t1", "t2", "tZero", "tdyn", "twide"}

TaskRep(kind, x) ==
  LET n == XSize
  IN CASE kind = "t1" ->
            [x_size |-> n, A |-> Mat(n, <<Ramp(n, x, 1)>>), b |-> <<2 + x>>,
             W |-> Mat(1, << <<2>> >>), lambda |-> 1,
             constraints |-> <<"boxA">>]
       [] kind = "t2" ->
            [x_size |-> n, A |-> Mat(n, <<Const(n, 1), Ramp(n, -2, 1)>>),
             b |-> <<1 - x, -1>>,
             W |-> Mat(2, << <<2, 1>>, <<1, 2>> >>), lambda |-> 3,
             constraints |-> <<"boxA", "ineqB">>]
       [] kind = "tZero" ->
            [x_size |-> n, A |-> Mat(n, <<>>), b |-> <<>>,
             W |-> Mat(0, <<>>), lambda |-> 1, constraints |-> <<>>]
       \* a task whose row count follows x
       [] kind = "tdyn" ->
            IF x = 0
            THEN [x_size |-> n, A |-> Mat(n, <<Const(n, 3)>>), b |-> <<5>>,
                  W |-> Eye(1), lambda |-> 2, constraints |-> <<"dyn">>]
            ELSE [x_size |-> n, A |-> Mat(n, <<Const(n, 3), Ramp(n, 0, 1)>>),
                  b |-> <<5, 6>>,
                  W |-> Eye(2), lambda |-> 2, constraints |-> <<"dyn">>]
       \* a task over a decision variable of another size
       [] kind = "twide" ->
            [x_size |-> n + 1, A |-> Mat(n + 1, <<Const(n + 1, 1)>>),
             b |-> <<1>>, W |-> Eye(1), lambda |-> 1,
             constraints |-> <<"wide">>]

\* ------------------------------------------- tasks::Aggregated::generateAll
\* getConstraints().clear(); _A.resize(0,_x_size); _b.resize(0)
Task_Reset(cur, n) == [A |-> Mat(n, <<>>), b |-> <<>>, constraints |-> <<>>]

\* (a variant in which lambda multiplies the A side too)
Task_MergeChild_LambdaOnA(acc, t) ==
  [A |-> pile(acc.A, MatMul(Scale(t.W, t.lambda), t.A)),
   b |-> cat(acc.b, MatVec(Scale(t.W, t.lambda), t.b)),
   constraints |-> acc.constraints \o t.constraints]

\* (a variant that skips a constraint the merged list already holds)
Task_MergeChild_Dedup(acc, t) ==
  [A |-> pile(acc.A, MatMul(t.W, t.A)),
   b |-> cat(acc.b, MatVec(Scale(t.W, t.lambda), t.b)),
   constraints |->
     acc.constraints \o
       SelectSeq(t.constraints,
                 LAMBDA c : \A i \in 1..Len(acc.constraints) : acc.constraints[i] # c)]

\* one iteration of the loop over _tasks
Task_MergeChild(acc, t) ==
  [A |-> pile(acc.A, MatMul(t.W, t.A)),
   b |-> cat(acc.b, MatVec(Scale(t.W, t.lambda), t.b)),
   constraints |-> acc.constraints \o t.constraints]

RECURSIVE Task_MergeAll(_, _)
Task_MergeAll(acc, reps) ==
  IF reps = <<>> THEN acc
  ELSE Task_MergeAll(Task_MergeChild(acc, Head(reps)), Tail(reps))

TaskReps(tasks, data) ==
  [i \in 1..Len(tasks) |-> data[tasks[i]]]

Task_generateAll(cur, tasks, data, n) ==
  Task_MergeAll(Task_Reset(cur, n), TaskReps(tasks, data))

\* the child task after one iteration of the loop: getWeight()*getA() and
\* getWeight()*getLambda()*getb() are temporaries
Task_ChildAfterMerge(t) == t

Task_childrenAfterGenerateAll(tasks, data) ==
  [k \in DOMAIN data |->
     IF \E i \in 1..Len(tasks) : tasks[i] = k
     THEN Task_ChildAfterMerge(data[k]) ELSE data[k]]

Task_checkSizes(tasks, data, n) ==
  \A i \in 1..Len(tasks) : data[tasks[i]].x_size = n

\* the fields of the child tasks after the loop of _update(x)
Task_updateChildrenData(tasks, data, x) ==
  [k \in DOMAIN data |->
     IF \E i \in 1..Len(tasks) : tasks[i] = k THEN TaskRep(k, x) ELSE data[k]]

\* ------------------------------------------------------------ OptvarHelper
Names == {"q", "tau", "f"}
Sizes == 0..MaxSize
Pairs == {<<nm, sz>> : nm \in Names, sz \in Sizes}

NoVars == [nm \in {} |-> 0]

\* the two exceptions of OptvarHelper: the type thrown and its what()
DuplicateNameError ==
  [what |-> "std::invalid_argument",
   msg |-> "Duplicate variable names are not allowed"]
UnknownNameError ==
  [what |-> "std::invalid_argument", msg |-> "Variable does not exist"]

\* (a variant that finds no name)
count_Never(vars_map, name) == 0

\* _vars_map.count(name)
count(vars_map, name) == IF name \in DOMAIN vars_map THEN 1 ELSE 0

\* (a variant that numbers the segments instead of summing their sizes)
Optvar_Step_ByIndex(acc, pair) ==
  IF count(acc.vars_map, pair[1]) # 0
  THEN [acc EXCEPT !.threw = TRUE]
  ELSE LET vinfo == [size |-> pair[2], start_idx |-> Len(acc.vars)]
       IN [acc EXCEPT !.size = acc.size + vinfo.size,
                      !.vars = Append(acc.vars, vinfo),
                      !.vars_map = (pair[1] :> vinfo) @@ acc.vars_map]

\* one iteration of the constructor's loop; threw is set by the throw
Optvar_Step(acc, pair) ==
  IF count(acc.vars_map, pair[1]) # 0
  THEN [acc EXCEPT !.threw = TRUE]
  ELSE LET vinfo == [size |-> pair[2], start_idx |-> acc.size]
       IN [acc EXCEPT !.size = acc.size + vinfo.size,
                      !.vars = Append(acc.vars, vinfo),
                      !.vars_map = (pair[1] :> vinfo) @@ acc.vars_map]

RECURSIVE Optvar_Loop(_, _)
Optvar_Loop(acc, pairs) ==
  IF pairs = <<>> \/ acc.threw THEN acc
  ELSE Optvar_Loop(Optvar_Step(acc, Head(pairs)), Tail(pairs))

\* OptvarHelper::OptvarHelper(name_size_pairs)
OptvarHelper(name_size_pairs) ==
  Optvar_Loop([size |-> 0, vars |-> <<>>, vars_map |-> NoVars, threw |-> FALSE],
              name_size_pairs)

\* OptvarHelper::getSize()
getSize(h) == h.size

\* (a variant that puts the identity block at the first column)
getVar_NoOffset(h, name) ==
  IF name \notin DOMAIN h.vars_map
  THEN [threw |-> TRUE, what |-> UnknownNameError.what,
        msg |-> UnknownNameError.msg, M |-> Mat(0, <<>>), q |-> <<>>]
  ELSE LET v == h.vars_map[name]
       IN [threw |-> FALSE, what |-> "", msg |-> "",
           M |-> Mat(h.size, [r \in 1..v.size |->
                                [c \in 1..h.size |->
                                   IF c = r THEN 1 ELSE 0]]),
           q |-> Const(v.size, 0)]

\* (a variant that answers an unknown name with an empty segment)
getVar_Default(h, name) ==
  LET v == IF name \in DOMAIN h.vars_map THEN h.vars_map[name]
           ELSE [size |-> 0, start_idx |-> 0]
  IN [threw |-> FALSE, what |-> "", msg |-> "",
      M |-> Mat(h.size, [r \in 1..v.size |->
                           [c \in 1..h.size |->
                              IF c = v.start_idx + r THEN 1 ELSE 0]]),
      q |-> Const(v.size, 0)]

\* OptvarHelper::getVar(name)
getVar(h, name) ==
  IF name \notin DOMAIN h.vars_map
  THEN [threw |-> TRUE, what |-> UnknownNameError.what,
        msg |-> UnknownNameError.msg, M |-> Mat(0, <<>>), q |-> <<>>]
  ELSE LET v == h.vars_map[name]
       IN [threw |-> FALSE, what |-> "", msg |-> "",
           M |-> Mat(h.size, [r \in 1..v.size |->
                                [c \in 1..h.size |->
                                   IF c = v.start_idx + r THEN 1 ELSE 0]]),
           q |-> Const(v.size, 0)]

\* ------------------------------------------------- CartesianImpedanceCtrl
\* sizes the class asserts or tests: twist, pose, gains; the default gains
TwistSize == 6
PoseSize == 4
GainSize == 6
DefaultStiffness == 100
DefaultDamping == 1
\* rows of the Jacobian the robot model returns
JacobianRows == 6

\* A pose is known by its shape and by what it stands for; the robot's pose
\* at state x is the pose getPose() returns after the model was set to x.
Pose(r, c, id) == [rows |-> r, cols |-> c, id |-> id]
NoPose == Pose(0, 0, "none")
ActualPose(x) == Pose(PoseSize, PoseSize, IF x = 0 THEN "at0" ELSE "at1")

\* the links the robot model knows; getLinkID of another name is negative
Links == {"world", "torso", "hand"}
getLinkID(link) ==
  CASE link = "world" -> 0 [] link = "torso" -> 1 [] link = "hand" -> 2
    [] OTHER -> -1
WORLD_FRAME_NAME == "world"

\* update_b(): b is computed from the poses, the twist, the gains and the
\* task matrix as they are at the call; calls lists the twists the calls of
\* update_b() of one operation have read
update_b(o) ==
  [o EXCEPT !.b = [actualPose |-> o.actualPose, desiredPose |-> o.desiredPose,
                   desiredTwist |-> o.desiredTwist,
                   K |-> o.K, D |-> o.D, A |-> o.A],
            !.calls = Append(o.calls, o.desiredTwist)]

\* (a variant that leaves the desired twist in place)
CIC_update_KeepTwist(o, x) ==
  LET o1 == [o EXCEPT !.A = [J |-> x, use_inertia_matrix |-> o.use_inertia_matrix],
                      !.actualPose = ActualPose(x)]
      o2 == IF o1.desiredPose.rows = 0
            THEN [o1 EXCEPT !.desiredPose = o1.actualPose]
            ELSE o1
  IN update_b(o2)

\* CartesianImpedanceCtrl::_update(x)
CIC_update(o, x) ==
  LET o1 == [o EXCEPT !.A = [J |-> x, use_inertia_matrix |-> o.use_inertia_matrix],
                      !.actualPose = ActualPose(x)]
      o2 == IF o1.desiredPose.rows = 0
            THEN [o1 EXCEPT !.desiredPose = o1.actualPose]
            ELSE o1
      o3 == update_b(o2)
  IN [o3 EXCEPT !.desiredTwist = Const(Len(o3.desiredTwist), 0)]

\* (a variant that takes any matrix)
CIC_setStiffness_NoCheck(o, Stiffness) == [o EXCEPT !.K = Stiffness]

\* CartesianImpedanceCtrl::setStiffness(Stiffness)
CIC_setStiffness(o, Stiffness) ==
  IF Stiffness.cols = GainSize /\ NRows(Stiffness) = GainSize
  THEN [o EXCEPT !.K = Stiffness]
  ELSE o

\* CartesianImpedanceCtrl::setDamping(Damping)
CIC_setDamping(o, Damping) ==
  IF Damping.cols = GainSize /\ NRows(Damping) = GainSize
  THEN [o EXCEPT !.D = Damping]
  ELSE o

\* CartesianImpedanceCtrl::setStiffnessDamping(Stiffness, Damping)
CIC_setStiffnessDamping(o, Stiffness, Damping) ==
  CIC_setDamping(CIC_setStiffness(o, Stiffness), Damping)

\* CartesianImpedanceCtrl::getStiffness(), getDamping()
CIC_getStiffness(o) == o.K
CIC_getDamping(o) == o.D

\* CartesianImpedanceCtrl::setReference(desiredPose); err names a failed assert
CIC_setReference(o, desiredPose) ==
  IF desiredPose.rows # PoseSize THEN [o EXCEPT !.err = "assert@144"]
  ELSE IF desiredPose.cols # PoseSize THEN [o EXCEPT !.err = "assert@145"]
  ELSE update_b([o EXCEPT !.desiredPose = desiredPose,
                          !.desiredTwist = Const(Len(o.desiredTwist), 0)])

\* CartesianImpedanceCtrl::setReference(desiredPose, desiredTwist)
CIC_setReferenceTwist(o, desiredPose, desiredTwist) ==
  IF Len(desiredTwist) # TwistSize THEN [o EXCEPT !.err = "assert@155"]
  ELSE IF desiredPose.rows # PoseSize THEN [o EXCEPT !.err = "assert@156"]
  ELSE IF desiredPose.cols # PoseSize THEN [o EXCEPT !.err = "assert@157"]
  ELSE update_b([o EXCEPT !.desiredPose = desiredPose,
                          !.desiredTwist = desiredTwist])

\* CartesianImpedanceCtrl::CartesianImpedanceCtrl(task_id, x, robot,
\* distal_link, base_link), on the object o not yet constructed
CartesianImpedanceCtrl(o, x, distal_link, base_link) ==
  LET base_link_is_world == (base_link = WORLD_FRAME_NAME)
      o1 == [o EXCEPT !.distal_link = distal_link, !.base_link = base_link,
                      !.desiredTwist = Const(TwistSize, 0),
                      !.use_inertia_matrix = TRUE]
  IN IF ~base_link_is_world /\ ~(getLinkID(base_link) >= 0)
     THEN [o1 EXCEPT !.err = "assert@42"]
     ELSE IF ~(getLinkID(distal_link) >= 0) THEN [o1 EXCEPT !.err = "assert@46"]
     ELSE IF ~base_link_is_world /\ ~(getLinkID(distal_link) # getLinkID(base_link))
     THEN [o1 EXCEPT !.err = "assert@49"]
     ELSE LET o2 == [o1 EXCEPT !.K = Scale(Eye(GainSize), DefaultStiffness),
                               !.D = Scale(Eye(GainSize), DefaultDamping)]
              o3 == CIC_update(o2, x)
          IN [o3 EXCEPT !.W = Eye(JacobianRows), !.lambda = 1,
                        !.hessianType = "HST_SEMIDEF"]

\* ================================================================= state
VARIABLES
  cworld,   \* per child constraint object, the x of its last update
  cdata,    \* per child constraint object, the fields it holds
  ac,       \* the constraints::Aggregated object and the run of its last call
  tworld,   \* per child task object, the x of its last update
  tdata,    \* per child task object, the fields it holds
  at,       \* the tasks::Aggregated object and the run of its last call
  ov,       \* the OptvarHelper object and the outcome of its last call
  ci        \* the CartesianImpedanceCtrl object and the run of its last call

vars == <<cworld, cdata, ac, tworld, tdata, at, ov, ci>>

\* status: "idle" (not part of this run), "new" (not constructed yet),
\* "live", "aborted" (an assert failed: fail names it)
NoAggregate(st) ==
  [status |-> st, bounds |-> <<>>, aggregationPolicy |-> {}, x_size |-> 0,
   m |-> ResetMerged(<<>>, 0), fail |-> "", op |-> "", trace |-> <<>>]

NoAggregateTask(st) ==
  [status |-> st, tasks |-> <<>>, x_size |-> 0,
   m |-> Task_Reset(<<>>, 0), W |-> Mat(0, <<>>), hessianType |-> "",
   fail |-> "", op |-> "", trace |-> <<>>, attached |-> <<>>]

NoResult == [threw |-> FALSE, what |-> "", msg |-> "", M |-> Mat(0, <<>>), q |-> <<>>]
NoHelper == [size |-> 0, vars |-> <<>>, vars_map |-> NoVars]
NoOptvar(st) ==
  [status |-> st, name_size_pairs |-> <<>>, h |-> NoHelper,
   what |-> "", msg |-> "", op |-> "", name |-> "", result |-> NoResult]

\* the object before its constructor has run
NoImpedance(st) ==
  [status |-> st, distal_link |-> "", base_link |-> "",
   K |-> Mat(0, <<>>), D |-> Mat(0, <<>>),
   desiredPose |-> NoPose, actualPose |-> NoPose, desiredTwist |-> <<>>,
   use_inertia_matrix |-> FALSE,
   A |-> [J |-> -1, use_inertia_matrix |-> FALSE],
   b |-> [actualPose |-> NoPose, desiredPose |-> NoPose, desiredTwist |-> <<>>,
          K |-> Mat(0, <<>>), D |-> Mat(0, <<>>),
          A |-> [J |-> -1, use_inertia_matrix |-> FALSE]],
   W |-> Mat(0, <<>>), lambda |-> 0, hessianType |-> "",
   calls |-> <<>>, err |-> "", op |-> "", argK |-> Mat(0, <<>>),
   argD |-> Mat(0, <<>>)]

InitWorlds ==
  /\ cworld = [k \in CKinds |-> 0]
  /\ tworld = [k \in TKinds |-> 0]
  /\ cdata = [k \in CKinds |-> ConstraintRep(k, 0)]
  /\ tdata = [k \in TKinds |-> TaskRep(k, 0)]

InitConstraint ==
  /\ InitWorlds
  /\ ac = NoAggregate("new") /\ at = NoAggregateTask("idle") /\ ov = NoOptvar("idle")
  /\ ci = NoImpedance("idle")
InitTask ==
  /\ InitWorlds
  /\ ac = NoAggregate("idle") /\ at = NoAggregateTask("new") /\ ov = NoOptvar("idle")
  /\ ci = NoImpedance("idle")
InitOptvar ==
  /\ InitWorlds
  /\ ac = NoAggregate("idle") /\ at = NoAggregateTask("idle") /\ ov = NoOptvar("new")
  /\ ci = NoImpedance("idle")
InitImpedance ==
  /\ InitWorlds
  /\ ac = NoAggregate("idle") /\ at = NoAggregateTask("idle") /\ ov = NoOptvar("idle")
  /\ ci = NoImpedance("new")

Init == InitConstraint \/ InitTask \/ InitOptvar \/ InitImpedance

\* ------------------------------------------- constraints::Aggregated calls
Abort(obj, tag, tr) ==
  [obj EXCEPT !.status = "aborted", !.fail = tag, !.trace = tr]

\* the object after a generateAll() that ends the call whose steps are tr; a
\* failed assert stops the process with the merged fields as they are then
AfterGenerateAll(obj, data, tr) ==
  LET g == generateAll(obj.m, obj.bounds, data, obj.aggregationPolicy, obj.x_size)
  IN IF g.err # "" THEN [Abort(obj, g.err, tr) EXCEPT !.m = g]
     ELSE [obj EXCEPT !.status = "live", !.m = g, !.trace = tr]

\* the children after that generateAll()
DataAfterGenerateAll(obj, data) ==
  childrenAfterGenerateAll(obj.bounds, data, obj.aggregationPolicy, obj.x_size)

CheckStep == Step("checkSizes", "", -1)
GenerateStep == Step("generateAll", "", -1)

\* Aggregated(bounds, q, aggregationPolicy); q is the state vector x, of
\* size qsize
ConstructQ(bounds, x, qsize, policy) ==
  /\ ac.status = "new"
  /\ LET obj == [ac EXCEPT !.bounds = bounds, !.aggregationPolicy = policy,
                           !.x_size = qsize, !.op = "Aggregated(bounds,q)"]
         upd == updateChildrenData(bounds, cdata, x)
     IN IF ~(Len(bounds) > 0)
        THEN ac' = Abort(obj, "assert@32", <<>>) /\ UNCHANGED <<cworld, cdata>>
        ELSE IF ~checkSizes(bounds, cdata, qsize)
        THEN ac' = Abort(obj, "assert@228", <<CheckStep>>)
             /\ UNCHANGED <<cworld, cdata>>
        ELSE /\ cworld' = updateChildren(bounds, cworld, x)
             /\ cdata' = DataAfterGenerateAll(obj, upd)
             /\ ac' = AfterGenerateAll(obj, upd, <<CheckStep>> \o UpdateSteps(bounds, x))
  /\ UNCHANGED <<tworld, tdata, at, ov, ci>>

\* Aggregated(bounds, x_size, aggregationPolicy)
ConstructXSize(bounds, n, policy) ==
  /\ ac.status = "new"
  /\ LET obj == [ac EXCEPT !.bounds = bounds, !.aggregationPolicy = policy,
                           !.x_size = n, !.op = "Aggregated(bounds,x_size)"]
     IN IF ~checkSizes(bounds, cdata, n)
        THEN ac' = Abort(obj, "assert@228", <<CheckStep>>) /\ cdata' = cdata
        ELSE /\ ac' = AfterGenerateAll(obj, cdata, <<CheckStep, GenerateStep>>)
             /\ cdata' = DataAfterGenerateAll(obj, cdata)
  /\ UNCHANGED <<cworld, tworld, tdata, at, ov, ci>>

\* Aggregated(bound1, bound2, x_size, aggregationPolicy)
ConstructPair(bound1, bound2, n, policy) ==
  /\ ac.status = "new"
  /\ LET obj == [ac EXCEPT !.bounds = <<bound1, bound2>>,
                           !.aggregationPolicy = policy,
                           !.x_size = n, !.op = "Aggregated(bound1,bound2)"]
     IN IF ~checkSizes(obj.bounds, cdata, n)
        THEN ac' = Abort(obj, "assert@228", <<CheckStep>>) /\ cdata' = cdata
        ELSE /\ ac' = AfterGenerateAll(obj, cdata, <<CheckStep, GenerateStep>>)
             /\ cdata' = DataAfterGenerateAll(obj, cdata)
  /\ UNCHANGED <<cworld, tworld, tdata, at, ov, ci>>

\* (a variant that merges first and updates the children afterwards)
Update_GenerateFirst(x) ==
  /\ ac.status = "live"
  /\ cworld' = updateChildren(ac.bounds, cworld, x)
  /\ cdata' = updateChildrenData(ac.bounds, DataAfterGenerateAll(ac, cdata), x)
  /\ ac' = AfterGenerateAll([ac EXCEPT !.op = "update"], cdata,
                            UpdateSteps(ac.bounds, x))
  /\ UNCHANGED <<tworld, tdata, at, ov, ci>>

\* Aggregated::update(x)
Update(x) ==
  /\ ac.status = "live"
  /\ cworld' = updateChildren(ac.bounds, cworld, x)
  /\ LET upd == updateChildrenData(ac.bounds, cdata, x)
     IN /\ cdata' = DataAfterGenerateAll(ac, upd)
        /\ ac' = AfterGenerateAll([ac EXCEPT !.op = "update"], upd,
                                  UpdateSteps(ac.bounds, x))
  /\ UNCHANGED <<tworld, tdata, at, ov, ci>>

\* Aggregated::generateAll(), called on its own
GenerateAll ==
  /\ ac.status = "live"
  /\ ac' = AfterGenerateAll([ac EXCEPT !.op = "generateAll"], cdata, <<GenerateStep>>)
  /\ cdata' = DataAfterGenerateAll(ac, cdata)
  /\ UNCHANGED <<cworld, tworld, tdata, at, ov, ci>>

XSizes == {XSize, XSize + 1}
BoundLists == SeqsUpTo(CKinds, MaxChildren)

\* the constructors' arguments are drawn only while there is no object yet
AnyConstructQ ==
  /\ ac.status = "new"
  /\ \E l \in BoundLists, x \in Xs, n \in XSizes, p \in Policies : ConstructQ(l, x, n, p)
AnyConstructXSize ==
  /\ ac.status = "new"
  /\ \E l \in BoundLists, n \in XSizes, p \in Policies : ConstructXSize(l, n, p)
AnyConstructPair ==
  /\ ac.status = "new"
  /\ \E b1 \in CKinds, b2 \in CKinds, n \in XSizes, p \in Policies : ConstructPair(b1, b2, n, p)
AnyUpdate == \E x \in Xs : Update(x)

NextConstraint ==
  AnyConstructQ \/ AnyConstructXSize \/ AnyConstructPair \/ AnyUpdate \/ GenerateAll

\* ------------------------------------------------- tasks::Aggregated calls
Task_AfterGenerateAll(obj, data, tr) ==
  [obj EXCEPT !.status = "live",
              !.m = Task_generateAll(obj.m, obj.tasks, data, obj.x_size),
              !.trace = tr]

\* (a variant that sizes the weight by the number of columns of A)
Task_SetWeight_ByCols(obj) ==
  IF obj.status = "live"
  THEN [obj EXCEPT !.W = Eye(obj.m.A.cols), !.hessianType = "HST_SEMIDEF"]
  ELSE obj

\* _W.resize(_A.rows(),_A.rows()); _W.eye(); _hessianType = HST_SEMIDEF
Task_SetWeight(obj) ==
  IF obj.status = "live"
  THEN [obj EXCEPT !.W = Eye(NRows(obj.m.A)), !.hessianType = "HST_SEMIDEF"]
  ELSE obj

Task_UpdateSteps(tasks, x) ==
  [i \in 1..Len(tasks) |-> Step("update", tasks[i], x)] \o <<GenerateStep>>

\* Aggregated(tasks, x_size)
Task_ConstructList(tasks, n) ==
  /\ at.status = "new"
  /\ LET obj == [at EXCEPT !.tasks = tasks, !.x_size = n,
                           !.op = "Aggregated(tasks,x_size)"]
     IN IF ~Task_checkSizes(tasks, tdata, n)
        THEN at' = Abort(obj, "assert@83", <<CheckStep>>) /\ tdata' = tdata
        ELSE /\ at' = Task_SetWeight(
                        Task_AfterGenerateAll(obj, tdata, <<CheckStep, GenerateStep>>))
             /\ tdata' = Task_childrenAfterGenerateAll(tasks, tdata)
  /\ UNCHANGED <<cworld, cdata, ac, tworld, ov, ci>>

\* Aggregated(task1, task2, x_size)
Task_ConstructPair(task1, task2, n) ==
  /\ at.status = "new"
  /\ LET obj == [at EXCEPT !.tasks = <<task1, task2>>, !.x_size = n,
                           !.op = "Aggregated(task1,task2)"]
     IN IF ~Task_checkSizes(obj.tasks, tdata, n)
        THEN at' = Abort(obj, "assert@83", <<CheckStep>>) /\ tdata' = tdata
        ELSE /\ at' = Task_SetWeight(
                        Task_AfterGenerateAll(obj, tdata, <<CheckStep, GenerateStep>>))
             /\ tdata' = Task_childrenAfterGenerateAll(obj.tasks, tdata)
  /\ UNCHANGED <<cworld, cdata, ac, tworld, ov, ci>>

\* Aggregated(tasks, q); q is the state vector x, of size qsize
Task_ConstructQ(tasks, x, qsize) ==
  /\ at.status = "new"
  /\ LET obj == [at EXCEPT !.tasks = tasks, !.x_size = qsize,
                           !.op = "Aggregated(tasks,q)"]
         upd == Task_updateChildrenData(tasks, tdata, x)
     IN IF ~Task_checkSizes(tasks, tdata, qsize)
        THEN at' = Abort(obj, "assert@83", <<CheckStep>>)
             /\ UNCHANGED <<tworld, tdata>>
        ELSE /\ tworld' = updateChildren(tasks, tworld, x)
             /\ tdata' = Task_childrenAfterGenerateAll(tasks, upd)
             /\ at' = Task_SetWeight(
                        Task_AfterGenerateAll(obj, upd,
                                              <<CheckStep>> \o Task_UpdateSteps(tasks, x)))
  /\ UNCHANGED <<cworld, cdata, ac, ov, ci>>

\* Aggregated::_update(x)
Task_update(x) ==
  /\ at.status = "live"
  /\ tworld' = updateChildren(at.tasks, tworld, x)
  /\ LET upd == Task_updateChildrenData(at.tasks, tdata, x)
     IN /\ tdata' = Task_childrenAfterGenerateAll(at.tasks, upd)
        /\ at' = Task_AfterGenerateAll([at EXCEPT !.op = "update"], upd,
                                       Task_UpdateSteps(at.tasks, x))
  /\ UNCHANGED <<cworld, cdata, ac, ov, ci>>

\* Aggregated::generateAll(), called on its own
Task_GenerateAll ==
  /\ at.status = "live"
  /\ at' = Task_AfterGenerateAll([at EXCEPT !.op = "generateAll"], tdata,
                                 <<GenerateStep>>)
  /\ tdata' = Task_childrenAfterGenerateAll(at.tasks, tdata)
  /\ UNCHANGED <<cworld, cdata, ac, tworld, ov, ci>>

\* task << constraint: the constraint is pushed onto the task's own
\* constraint list; attached keeps what was pushed this way
Task_Attach(c) ==
  /\ at.status = "live"
  /\ Len(at.attached) < MaxAttached
  /\ at' = [at EXCEPT !.m.constraints = Append(@, c),
                      !.attached = Append(@, c),
                      !.op = "<<", !.trace = <<>>]
  /\ UNCHANGED <<cworld, cdata, ac, tworld, tdata, ov, ci>>

TaskLists == SeqsUpTo(TKinds, MaxTasks)
\* the constraints the stack-building code attaches: one no child task holds,
\* one some child tasks hold too
AttachKinds == {"ineqU", "boxA"}

Task_AnyConstructList ==
  /\ at.status = "new"
  /\ \E l \in TaskLists, n \in XSizes : Task_ConstructList(l, n)
Task_AnyConstructPair ==
  /\ at.status = "new"
  /\ \E t1 \in TKinds, t2 \in TKinds, n \in XSizes : Task_ConstructPair(t1, t2, n)
Task_AnyConstructQ ==
  /\ at.status = "new"
  /\ \E l \in TaskLists, x \in Xs, n \in XSizes : Task_ConstructQ(l, x, n)
Task_AnyUpdate == \E x \in Xs : Task_update(x)
Task_AnyAttach == \E c \in AttachKinds : Task_Attach(c)

NextTask ==
  \/ Task_AnyConstructList \/ Task_AnyConstructPair \/ Task_AnyConstructQ
  \/ Task_AnyUpdate \/ Task_GenerateAll \/ Task_AnyAttach

\* ------------------------------------------------------ OptvarHelper calls
\* the constructor: a throw leaves no object behind
Optvar_Construct(pairs) ==
  /\ ov.status = "new"
  /\ LET r == OptvarHelper(pairs)
     IN ov' = IF r.threw
              THEN [ov EXCEPT !.status = "threw", !.name_size_pairs = pairs,
                              !.op = "OptvarHelper",
                              !.what = DuplicateNameError.what,
                              !.msg = DuplicateNameError.msg]
              ELSE [ov EXCEPT !.status = "ok", !.name_size_pairs = pairs,
                              !.op = "OptvarHelper",
                              !.h = [size |-> r.size, vars |-> r.vars,
                                     vars_map |-> r.vars_map]]
  /\ UNCHANGED <<cworld, cdata, ac, tworld, tdata, at, ci>>

\* getVar(name) on the constructed helper
Optvar_getVar(name) ==
  /\ ov.status = "ok"
  /\ ov' = [ov EXCEPT !.op = "getVar", !.name = name, !.result = getVar(ov.h, name)]
  /\ UNCHANGED <<cworld, cdata, ac, tworld, tdata, at, ci>>

PairLists == SeqsUpTo(Pairs, MaxPairs)
QueryNames == Names \cup {"missing"}

Optvar_AnyConstruct ==
  /\ ov.status = "new"
  /\ \E l \in PairLists : Optvar_Construct(l)
Optvar_AnyGetVar == \E nm \in QueryNames : Optvar_getVar(nm)

NextOptvar == Optvar_AnyConstruct \/ Optvar_AnyGetVar

\* ------------------------------------------ CartesianImpedanceCtrl calls
\* the object after a call that ran as o: a failed assert stops the process
CIC_After(o, op) ==
  IF o.err # "" THEN [o EXCEPT !.status = "aborted", !.op = op]
  ELSE [o EXCEPT !.status = "live", !.op = op]

\* what a call starts from: the record of the last call is cleared
CIC_Before(o) == [o EXCEPT !.calls = <<>>, !.argK = Mat(0, <<>>),
                           !.argD = Mat(0, <<>>)]

CIC_Others == <<cworld, cdata, ac, tworld, tdata, at, ov>>

CIC_Construct(x, distal_link, base_link) ==
  /\ ci.status = "new"
  /\ ci' = CIC_After(CartesianImpedanceCtrl(CIC_Before(ci), x, distal_link, base_link),
                     "CartesianImpedanceCtrl")
  /\ UNCHANGED CIC_Others

CIC_Update(x) ==
  /\ ci.status = "live"
  /\ ci' = CIC_After(CIC_update(CIC_Before(ci), x), "_update")
  /\ UNCHANGED CIC_Others

CIC_SetReference(desiredPose) ==
  /\ ci.status = "live"
  /\ ci' = CIC_After(CIC_setReference(CIC_Before(ci), desiredPose),
                     "setReference(desiredPose)")
  /\ UNCHANGED CIC_Others

CIC_SetReferenceTwist(desiredPose, desiredTwist) ==
  /\ ci.status = "live"
  /\ ci' = CIC_After(CIC_setReferenceTwist(CIC_Before(ci), desiredPose, desiredTwist),
                     "setReference(desiredPose,desiredTwist)")
  /\ UNCHANGED CIC_Others

CIC_SetStiffness(Stiffness) ==
  /\ ci.status = "live"
  /\ ci' = CIC_After([CIC_setStiffness(CIC_Before(ci), Stiffness)
                        EXCEPT !.argK = Stiffness], "setStiffness")
  /\ UNCHANGED CIC_Others

CIC_SetDamping(Damping) ==
  /\ ci.status = "live"
  /\ ci' = CIC_After([CIC_setDamping(CIC_Before(ci), Damping)
                        EXCEPT !.argD = Damping], "setDamping")
  /\ UNCHANGED CIC_Others

CIC_SetStiffnessDamping(Stiffness, Damping) ==
  /\ ci.status = "live"
  /\ ci' = CIC_After([CIC_setStiffnessDamping(CIC_Before(ci), Stiffness, Damping)
                        EXCEPT !.argK = Stiffness, !.argD = Damping],
                     "setStiffnessDamping")
  /\ UNCHANGED CIC_Others

\* CartesianImpedanceCtrl::useInertiaMatrix(use)
CIC_UseInertiaMatrix(use) ==
  /\ ci.status = "live"
  /\ ci' = CIC_After([CIC_Before(ci) EXCEPT !.use_inertia_matrix = use],
                     "useInertiaMatrix")
  /\ UNCHANGED CIC_Others

\* the arguments of the calls
LinkNames == Links \cup {"nolink"}
PoseArgs == {Pose(PoseSize, PoseSize, "P1"), Pose(PoseSize - 1, PoseSize, "short"),
             Pose(PoseSize, PoseSize - 1, "narrow")}
TwistArgs == {Const(TwistSize, 0), Ramp(TwistSize, 0, 1), Const(TwistSize - 1, 1)}
GainArgs ==
  {Scale(Eye(GainSize), 5),
   Mat(GainSize, [r \in 1..(GainSize - 1) |-> Const(GainSize, 7)]),
   Mat(GainSize - 1, [r \in 1..GainSize |-> Const(GainSize - 1, 8)])}

CIC_AnyConstruct ==
  /\ ci.status = "new"
  /\ \E x \in Xs, d \in LinkNames, bl \in LinkNames : CIC_Construct(x, d, bl)
CIC_AnyUpdate == \E x \in Xs : CIC_Update(x)
CIC_AnySetReference == \E P \in PoseArgs : CIC_SetReference(P)
CIC_AnySetReferenceTwist ==
  \E P \in PoseArgs, t \in TwistArgs : CIC_SetReferenceTwist(P, t)
CIC_AnySetStiffness == \E K \in GainArgs : CIC_SetStiffness(K)
CIC_AnySetDamping == \E D \in GainArgs : CIC_SetDamping(D)
CIC_AnySetStiffnessDamping ==
  \E K \in GainArgs, D \in GainArgs : CIC_SetStiffnessDamping(K, D)
CIC_AnyUseInertiaMatrix == \E use \in BOOLEAN : CIC_UseInertiaMatrix(use)

NextImpedance ==
  \/ CIC_AnyConstruct \/ CIC_AnyUpdate \/ CIC_AnySetReference
  \/ CIC_AnySetReferenceTwist \/ CIC_AnySetStiffness \/ CIC_AnySetDamping
  \/ CIC_AnySetStiffnessDamping \/ CIC_AnyUseInertiaMatrix

\* ---------------------------------------------------------- specifications
Next == NextConstraint \/ NextTask \/ NextOptvar \/ NextImpedance

\* a run exercises one of the three objects
Spec == Init /\ [][Next]_vars
SpecConstraint == InitConstraint /\ [][NextConstraint]_vars
SpecTask == InitTask /\ [][NextTask]_vars
SpecOptvar == InitOptvar /\ [][NextOptvar]_vars
SpecImpedance == InitImpedance /\ [][NextImpedance]_vars

\* ================================================================ properties
\* helpers of the properties below
SetMax(S) == CHOOSE v \in S : \A w \in S : v >= w
SetMin(S) == CHOOSE v \in S : \A w \in S : v <= w
RECURSIVE Flatten(_)
Flatten(ss) == IF ss = <<>> THEN <<>> ELSE Head(ss) \o Flatten(Tail(ss))
RECURSIVE SumOver(_, _)
SumOver(f, k) == IF k = 0 THEN 0 ELSE f[k] + SumOver(f, k - 1)

\* the aggregate's children as they are now, in list order
CurReps == ChildReps(ac.bounds, cdata)
CurTaskReps == TaskReps(at.tasks, tdata)
ExposesBox(b) == Len(b.upperBound) # 0 \/ Len(b.lowerBound) # 0
ExposesEq(b) == NRows(b.Aeq) # 0 \/ Len(b.beq) # 0
ExposesIneq(b) ==
  NRows(b.Aineq) # 0 \/ Len(b.bUpperBound) # 0 \/ Len(b.bLowerBound) # 0
BoxChildren == {i \in 1..Len(ac.bounds) : ExposesBox(CurReps[i])}
\* a child that keeps the Constraint contract of the data model
WellFormed(b, n) ==
  /\ b.x_size = n
  /\ Len(b.lowerBound) = Len(b.upperBound)
  /\ Len(b.lowerBound) \in {0, n}
  /\ NRows(b.Aeq) = Len(b.beq)
  /\ NRows(b.Aeq) > 0 => b.Aeq.cols = n
  /\ ExposesIneq(b) =>
       /\ NRows(b.Aineq) > 0 /\ b.Aineq.cols = n
       /\ Len(b.bLowerBound) \in {0, NRows(b.Aineq)}
       /\ Len(b.bUpperBound) \in {0, NRows(b.Aineq)}
       /\ Len(b.bLowerBound) + Len(b.bUpperBound) > 0
AllWellFormed == \A i \in 1..Len(ac.bounds) : WellFormed(CurReps[i], ac.x_size)

\* C1 (box-bound intersection): after a generateAll() that completed, when at
\* least one child exposes box bounds, lowerBound[i] is the largest
\* lowerBound[i] and upperBound[i] the smallest upperBound[i] among the
\* box-exposing children, for every index i.
C1_BoxBoundIntersection ==
  (ac.status = "live" /\ BoxChildren # {}) =>
    /\ Len(ac.m.lowerBound) = ac.x_size
    /\ Len(ac.m.upperBound) = ac.x_size
    /\ \A i \in 1..ac.x_size :
         /\ ac.m.lowerBound[i] = SetMax({CurReps[k].lowerBound[i] : k \in BoxChildren})
         /\ ac.m.upperBound[i] = SetMin({CurReps[k].upperBound[i] : k \in BoxChildren})

\* two different boxes were merged and the result is neither child's own box
C1_Witness ==
  /\ ac.status = "live"
  /\ Cardinality({ac.bounds[k] : k \in BoxChildren}) >= 2
  /\ \A k \in BoxChildren :
       ac.m.lowerBound # CurReps[k].lowerBound /\ ac.m.upperBound # CurReps[k].upperBound

\* C2 (equality preservation): without EQUALITIES_TO_INEQUALITIES, after a
\* generateAll() that completed, Aeq is the children's Aeq stacked in list
\* order, beq the children's beq in the same order, and Aineq holds the
\* children's (normalised) inequality rows and nothing else.
C2_EqualityPreservation ==
  (ac.status = "live" /\ EQUALITIES_TO_INEQUALITIES \notin ac.aggregationPolicy) =>
    /\ ac.m.Aeq.rows = Flatten([i \in 1..Len(ac.bounds) |-> CurReps[i].Aeq.rows])
    /\ ac.m.beq = Flatten([i \in 1..Len(ac.bounds) |-> CurReps[i].beq])
    /\ ac.m.Aineq.rows =
         Flatten([i \in 1..Len(ac.bounds) |->
                    IF ExposesIneq(CurReps[i])
                    THEN NormalizeIneq(CurReps[i], ac.aggregationPolicy).A.rows
                    ELSE <<>>])

\* two different equality blocks were stacked, beside inequality rows
C2_Witness ==
  /\ ac.status = "live"
  /\ EQUALITIES_TO_INEQUALITIES \notin ac.aggregationPolicy
  /\ Len(ac.bounds) = 2
  /\ ExposesEq(CurReps[1]) /\ ExposesEq(CurReps[2])
  /\ CurReps[1].Aeq # CurReps[2].Aeq
  /\ NRows(ac.m.Aineq) > 0

\* rows the children before child i put into Aineq when equalities are folded
\* in bilateral mode
RowsBefore(i) ==
  SumOver([j \in 1..Len(ac.bounds) |->
             NRows(CurReps[j].Aeq) + NRows(CurReps[j].Aineq)], i - 1)

\* C3 (equality folding, bilateral): with both flags set, after a generateAll()
\* that completed, every child equality block (Aeq,beq) is found in Aineq as
\* Aeq.rows() rows equal to Aeq, with bLowerBound = bUpperBound = beq on those
\* rows, and Aineq has no rows but the children's equality and inequality rows.
C3_EqualityFoldingBilateral ==
  (ac.status = "live"
   /\ ac.aggregationPolicy = {EQUALITIES_TO_INEQUALITIES, UNILATERAL_TO_BILATERAL}) =>
    /\ NRows(ac.m.Aineq) = RowsBefore(Len(ac.bounds) + 1)
    /\ Len(ac.m.bLowerBound) = NRows(ac.m.Aineq)
    /\ Len(ac.m.bUpperBound) = NRows(ac.m.Aineq)
    /\ \A i \in 1..Len(ac.bounds) : \A r \in 1..NRows(CurReps[i].Aeq) :
         /\ ac.m.Aineq.rows[RowsBefore(i) + r] = CurReps[i].Aeq.rows[r]
         /\ ac.m.bLowerBound[RowsBefore(i) + r] = CurReps[i].beq[r]
         /\ ac.m.bUpperBound[RowsBefore(i) + r] = CurReps[i].beq[r]

\* an equality block was folded after another child's rows
C3_Witness ==
  /\ ac.status = "live"
  /\ ac.aggregationPolicy = {EQUALITIES_TO_INEQUALITIES, UNILATERAL_TO_BILATERAL}
  /\ Len(ac.bounds) = 2
  /\ ExposesIneq(CurReps[1])
  /\ NRows(CurReps[2].Aeq) = 2

\* C4 (equality folding, unilateral), as claimed: with only
\* EQUALITIES_TO_INEQUALITIES set, generateAll() on well-formed children of
\* which one exposes an equality block completes, and the block is in Aineq as
\* the rows Aeq with upper bound beq followed by the rows -Aeq with upper
\* bound -beq.
C4_EqualityFoldingUnilateral ==
  (/\ ac.status \in {"live", "aborted"}
   /\ ac.aggregationPolicy = {EQUALITIES_TO_INEQUALITIES}
   /\ Len(ac.bounds) = 1
   /\ AllWellFormed
   /\ ExposesEq(CurReps[1]) /\ ~ExposesIneq(CurReps[1])) =>
    /\ ac.status = "live"
    /\ ac.m.Aineq.rows = CurReps[1].Aeq.rows \o NegMat(CurReps[1].Aeq).rows
    /\ ac.m.bUpperBound = CurReps[1].beq \o Neg(CurReps[1].beq)

\* rows the tasks before task i put into the merged A
TaskRowsBefore(i) ==
  SumOver([j \in 1..Len(at.tasks) |-> NRows(CurTaskReps[j].A)], i - 1)

\* C5 (task weighting): after generateAll() on an AggregatedTask the merged A
\* is the stack, in list order, of weight * A of each child, the merged b the
\* concatenation of weight * lambda * b; lambda does not reach A, and the
\* merged row count is the sum of the children's row counts.
C5_TaskWeighting ==
  at.status = "live" =>
    /\ NRows(at.m.A) = TaskRowsBefore(Len(at.tasks) + 1)
    /\ Len(at.m.b) = TaskRowsBefore(Len(at.tasks) + 1)
    /\ \A i \in 1..Len(at.tasks) :
         LET t == CurTaskReps[i]
             k == NRows(t.A)
         IN \A r \in 1..k :
              /\ \A c \in 1..at.x_size :
                   at.m.A.rows[TaskRowsBefore(i) + r][c] =
                     SumOver([j \in 1..k |-> t.W.rows[r][j] * t.A.rows[j][c]], k)
              /\ at.m.b[TaskRowsBefore(i) + r] =
                   SumOver([j \in 1..k |-> t.W.rows[r][j] * t.lambda * t.b[j]], k)

\* a task with a full weight matrix and lambda # 1 was stacked below another
C5_Witness ==
  /\ at.status = "live"
  /\ Len(at.tasks) = 2
  /\ NRows(CurTaskReps[1].A) > 0
  /\ at.tasks[2] = "t2"

\* C6 (task constraint union): after generateAll() on an AggregatedTask its
\* constraint list is the concatenation, in list order, of the children's
\* constraint lists, each in its own order, duplicates kept.
C6_TaskConstraintUnion ==
  (at.status = "live" /\ at.op # "<<") =>
    at.m.constraints = Flatten([i \in 1..Len(at.tasks) |-> CurTaskReps[i].constraints])

\* one constraint object, attached to two children, is listed twice
C6_Witness ==
  /\ at.status = "live"
  /\ at.tasks = <<"t1", "t2">>
  /\ Cardinality({i \in 1..Len(at.m.constraints) : at.m.constraints[i] = "boxA"}) = 2

\* C7 (idempotence): a generateAll() called on a live aggregate, whose merged
\* fields come from an earlier generateAll() over the same children, completes
\* and leaves every merged field as it was, for AggregatedConstraint and for
\* AggregatedTask.
C7_Idempotence ==
  [][ /\ (ac.status = "live" /\ ac'.op = "generateAll")
         => (ac'.status = "live" /\ ac'.m = ac.m)
      /\ (at.status = "live" /\ at.op # "<<" /\ at'.op = "generateAll")
         => (at'.status = "live" /\ at'.m = at.m) ]_vars

\* generateAll() was called again on an aggregate with all three blocks filled
C7_Witness ==
  /\ ac.status = "live" /\ ac.op = "generateAll"
  /\ Len(ac.m.lowerBound) > 0 /\ NRows(ac.m.Aeq) > 0 /\ NRows(ac.m.Aineq) > 0

\* C8 (x_size mismatch detection): a constructor of either aggregate given a
\* child whose x_size differs from the aggregate's fails at the assert of
\* checkSizes(), and by then no child was updated and no generateAll() ran.
C8_XSizeMismatch ==
  /\ (ac.status \in {"live", "aborted"}
      /\ \E i \in 1..Len(ac.bounds) : CurReps[i].x_size # ac.x_size)
     => /\ ac.status = "aborted" /\ ac.fail = "assert@228"
        /\ ac.trace = <<CheckStep>>
        /\ cworld = [k \in CKinds |-> 0]
        /\ ac.m = ResetMerged(<<>>, 0)
  /\ (at.status \in {"live", "aborted"}
      /\ \E i \in 1..Len(at.tasks) : CurTaskReps[i].x_size # at.x_size)
     => /\ at.status = "aborted" /\ at.fail = "assert@83"
        /\ at.trace = <<CheckStep>>
        /\ tworld = [k \in TKinds |-> 0]
        /\ at.m = Task_Reset(<<>>, 0)

\* the seed-vector constructor, which updates the children first when the
\* sizes agree, was given a well-sized child followed by a mismatched one
C8_Witness ==
  /\ ac.status = "aborted" /\ ac.op = "Aggregated(bounds,q)"
  /\ Len(ac.bounds) = 2
  /\ CurReps[1].x_size = ac.x_size /\ CurReps[2].x_size # ac.x_size

\* names registered by the constructor's argument
HasDuplicate(pairs) ==
  \E i \in 1..Len(pairs), j \in 1..Len(pairs) : i < j /\ pairs[i][1] = pairs[j][1]

\* C9 (duplicate name rejection): the OptvarHelper constructor given a list in
\* which a name occurs twice throws std::invalid_argument "Duplicate variable
\* names are not allowed" and leaves no layout, wherever the repeats are and
\* whatever the sizes.
C9_DuplicateNameRejected ==
  (ov.status \in {"ok", "threw"} /\ HasDuplicate(ov.name_size_pairs)) =>
    /\ ov.status = "threw"
    /\ ov.what = "std::invalid_argument"
    /\ ov.msg = "Duplicate variable names are not allowed"
    /\ ov.h = NoHelper

\* the repeat is not adjacent and the sizes differ
C9_Witness ==
  /\ ov.status = "threw"
  /\ Len(ov.name_size_pairs) = 3
  /\ ov.name_size_pairs[1][1] = ov.name_size_pairs[3][1]
  /\ ov.name_size_pairs[1][1] # ov.name_size_pairs[2][1]
  /\ ov.name_size_pairs[1][2] # ov.name_size_pairs[3][2]

Registered(pairs) == {pairs[i][1] : i \in 1..Len(pairs)}

\* C10 (lookup of an unknown name): on a constructed OptvarHelper, getVar of a
\* name that was never registered throws std::invalid_argument "Variable does
\* not exist", returns no (M,q), and the layout is still the one the
\* constructor built.
C10_UnknownNameLookup ==
  (ov.status = "ok" /\ ov.op = "getVar"
   /\ ov.name \notin Registered(ov.name_size_pairs)) =>
    /\ ov.result.threw
    /\ ov.result.what = "std::invalid_argument"
    /\ ov.result.msg = "Variable does not exist"
    /\ ov.result.M = Mat(0, <<>>) /\ ov.result.q = <<>>
    /\ LET r == OptvarHelper(ov.name_size_pairs)
       IN ov.h = [size |-> r.size, vars |-> r.vars, vars_map |-> r.vars_map]

\* a name of the program's vocabulary that this layout does not hold
C10_Witness ==
  /\ ov.status = "ok" /\ ov.op = "getVar"
  /\ Len(ov.name_size_pairs) = 2
  /\ ov.name \in Names \ Registered(ov.name_size_pairs)
  /\ ov.result.threw

\* --------------------------------------------------- C11, C12, C13: layout
\* C11 (distinct error kinds): the error getVar raises for a name that was
\* never registered is of another kind than the error the constructor raises
\* for a duplicate name, so that a caller can tell a lookup failure from a
\* configuration failure by the kind of the error.
C11_DistinctErrorKinds ==
  (ov.status = "ok" /\ ov.op = "getVar" /\ ov.result.threw) =>
    ov.result.what # DuplicateNameError.what

\* the sizes of the segments of the constructed layout, in registration order
SegSizes == [k \in 1..Len(ov.name_size_pairs) |-> ov.name_size_pairs[k][2]]

\* C12 (variable layout offsets): for a list of unique names the k-th segment
\* starts at the sum of the sizes of the segments before it and has the size
\* given for it, the map finds each name's segment, and getSize() is the sum
\* of all sizes.
C12_LayoutOffsets ==
  (ov.status = "ok") =>
    /\ Len(ov.h.vars) = Len(ov.name_size_pairs)
    /\ DOMAIN ov.h.vars_map = Registered(ov.name_size_pairs)
    /\ \A k \in 1..Len(ov.name_size_pairs) :
         /\ ov.h.vars[k].size = SegSizes[k]
         /\ ov.h.vars[k].start_idx = SumOver(SegSizes, k - 1)
         /\ ov.h.vars_map[ov.name_size_pairs[k][1]] = ov.h.vars[k]
    /\ getSize(ov.h) = SumOver(SegSizes, Len(SegSizes))

\* three segments of sizes that tell a sum from a count
C12_Witness ==
  /\ ov.status = "ok"
  /\ Len(ov.name_size_pairs) = 3
  /\ SegSizes[1] = 2 /\ SegSizes[2] = 0 /\ SegSizes[3] = 1
  /\ ov.h.vars[3].start_idx = 2

\* the index of a registered name in the list, and the vectors M is tried on
IndexOf(name) ==
  CHOOSE k \in 1..Len(ov.name_size_pairs) : ov.name_size_pairs[k][1] = name
TestVectors(n) ==
  {[c \in 1..n |-> IF c = j THEN 1 ELSE 0] : j \in 1..n} \cup {Ramp(n, 10, 1)}

\* C13 (selection operator): getVar of a registered name, whose segment has
\* offset o and size s in a layout of total size n, returns (M, q) where M has
\* s rows and n columns, M[r][o+r] = 1 and every other entry is 0, and q is
\* the zero vector of length s; M*x_full + q is the slice of x_full from o of
\* length s.
C13_SelectionOperator ==
  (ov.status = "ok" /\ ov.op = "getVar"
   /\ ov.name \in Registered(ov.name_size_pairs)) =>
    LET k == IndexOf(ov.name)
        s == SegSizes[k]
        o == SumOver(SegSizes, k - 1)
        n == SumOver(SegSizes, Len(SegSizes))
        M == ov.result.M
        q == ov.result.q
    IN /\ ~ov.result.threw
       /\ M.cols = n /\ NRows(M) = s
       /\ \A r \in 1..s : DOMAIN M.rows[r] = 1..n
       /\ \A r \in 1..s : \A c \in 1..n :
            M.rows[r][c] = IF c = o + r THEN 1 ELSE 0
       /\ q = [r \in 1..s |-> 0]
       /\ \A x \in TestVectors(n) :
            [r \in 1..s |-> MatVec(M, x)[r] + q[r]] = [r \in 1..s |-> x[o + r]]

\* a segment in the middle of the layout, of more than one row
C13_Witness ==
  /\ ov.status = "ok" /\ ov.op = "getVar"
  /\ Len(ov.name_size_pairs) = 3
  /\ ov.name = ov.name_size_pairs[2][1]
  /\ SegSizes[1] = 1 /\ SegSizes[2] = 2 /\ SegSizes[3] = 1
  /\ ~ov.result.threw

\* ------------------------------------------- C14: the empty list of children
\* C14 (minimum one child): constructing the aggregate constraint from an
\* empty list of children is rejected as a configuration error (the assert on
\* bounds.size() > 0) by every constructor that takes a list, the one with a
\* seed vector q and the one with x_size alike; no aggregate is produced.
C14_EmptyListRejected ==
  (ac.status \in {"live", "aborted"} /\ ac.bounds = <<>>
   /\ ac.op \in {"Aggregated(bounds,q)", "Aggregated(bounds,x_size)"}) =>
    /\ ac.status = "aborted"
    /\ ac.fail = "assert@32"

\* --------------------------------------------------- C15: the children's frame
\* C15 (frame effect): generateAll() of either aggregate leaves every child as
\* it was: whether it runs on its own, inside a constructor or at the end of
\* update(x), each child constraint still holds the bounds, the equality block
\* and the inequality block its own last update gave it, and each child task
\* its A, b, weight, lambda and constraint list, also when the merge
\* sign-flips, fills or splits the rows it reads from the child.
C15_ChildrenUnchanged ==
  /\ \A k \in CKinds : cdata[k] = ConstraintRep(k, cworld[k])
  /\ \A k \in TKinds : tdata[k] = TaskRep(k, tworld[k])

\* a merge that fills the missing side of one child and folds the equality of
\* another has completed, and both children are one-sided and unfolded still
C15_Witness ==
  /\ ac.status = "live" /\ ac.op = "generateAll"
  /\ ac.aggregationPolicy = {EQUALITIES_TO_INEQUALITIES, UNILATERAL_TO_BILATERAL}
  /\ ac.bounds = <<"ineqL", "eq1">>
  /\ ac.m.bUpperBound[1] = Infinity
  /\ NRows(ac.m.Aineq) = 2
  /\ cdata["ineqL"].bUpperBound = <<>>
  /\ NRows(cdata["eq1"].Aineq) = 0

\* ------------------------------------------- C16: the weight at construction
TaskConstructors ==
  {"Aggregated(tasks,x_size)", "Aggregated(task1,task2)", "Aggregated(tasks,q)"}

\* C16 (identity weight and semi-definite Hessian at construction): right
\* after any of the three constructors of the aggregate task has completed, W
\* is the identity matrix with as many rows and columns as A has rows, and the
\* Hessian type is semi-definite.
C16_IdentityWeightAtConstruction ==
  (at.status = "live" /\ at.op \in TaskConstructors) =>
    LET k == NRows(at.m.A)
    IN /\ at.W.cols = k /\ NRows(at.W) = k
       /\ \A r \in 1..k : DOMAIN at.W.rows[r] = 1..k
       /\ \A r \in 1..k : \A c \in 1..k :
            at.W.rows[r][c] = IF r = c THEN 1 ELSE 0
       /\ at.hessianType = "HST_SEMIDEF"

\* the constructor with a seed vector, whose update has changed the number of
\* rows of a child before the merge
C16_Witness ==
  /\ at.status = "live" /\ at.op = "Aggregated(tasks,q)"
  /\ at.tasks = <<"tdyn", "t1">>
  /\ NRows(at.m.A) = 3 /\ NRows(at.W) = 3
  /\ at.m.A.cols = 2

\* --------------------------------------------------------- C17: update order
\* the calls update(x) makes on a list of children, as the claim has them
OrderedUpdate(tr, list, x) ==
  /\ Len(tr) = Len(list) + 1
  /\ \A i \in 1..Len(list) :
       tr[i].step = "update" /\ tr[i].who = list[i] /\ tr[i].x = x
  /\ tr[Len(list) + 1].step = "generateAll"

\* C17 (update ordering): update(x) on either aggregate calls update(x) on
\* every child in list order, once per list entry and with the same x, and
\* runs generateAll() only after the last of them; the merged fields read
\* after update are the merge of the children as they are after their update.
C17_UpdateOrdering ==
  /\ (ac.status \in {"live", "aborted"} /\ ac.op = "update") =>
       \E x \in Xs :
         /\ OrderedUpdate(ac.trace, ac.bounds, x)
         /\ \A i \in 1..Len(ac.bounds) :
              /\ cworld[ac.bounds[i]] = x
              /\ cdata[ac.bounds[i]] = ConstraintRep(ac.bounds[i], x)
         /\ ac.m = generateAll(<<>>, ac.bounds,
                               [k \in CKinds |-> ConstraintRep(k, x)],
                               ac.aggregationPolicy, ac.x_size)
  /\ (at.status = "live" /\ at.op = "update") =>
       \E x \in Xs :
         /\ OrderedUpdate(at.trace, at.tasks, x)
         /\ \A i \in 1..Len(at.tasks) :
              /\ tworld[at.tasks[i]] = x
              /\ tdata[at.tasks[i]] = TaskRep(at.tasks[i], x)
         /\ at.m = Task_generateAll(<<>>, at.tasks,
                                    [k \in TKinds |-> TaskRep(k, x)], at.x_size)

\* an update that changes what a child exposes, on a list that names one
\* child twice
C17_Witness ==
  /\ ac.status = "live" /\ ac.op = "update"
  /\ ac.bounds = <<"dyn", "dyn">>
  /\ cworld["dyn"] = 1
  /\ ConstraintRep("dyn", 1) # ConstraintRep("dyn", 0)
  /\ Len(ac.trace) = 3
  /\ ac.m # generateAll(<<>>, ac.bounds, [k \in CKinds |-> ConstraintRep(k, 0)],
                        ac.aggregationPolicy, ac.x_size)

\* ------------------------------------- C18, C19, C20: the unilateral merges
\* the asserts of the final check, and the runs whose loop over the children
\* has ended without a failed assert
FinalAsserts ==
  {"assert@209", "assert@210", "assert@212", "assert@214", "assert@216",
   "assert@218", "assert@220"}
LoopCompleted ==
  \/ ac.status = "live"
  \/ ac.status = "aborted" /\ ac.fail \in FinalAsserts

\* what the final check requires of the merged fields besides the length of
\* bLowerBound
FinalButLower(mm, n) ==
  /\ Len(mm.lowerBound) \in {0, n} /\ Len(mm.upperBound) \in {0, n}
  /\ NRows(mm.Aeq) = Len(mm.beq)
  /\ NRows(mm.Aeq) > 0 => mm.Aeq.cols = n
  /\ NRows(mm.Aineq) = Len(mm.bUpperBound)
  /\ NRows(mm.Aineq) > 0 => mm.Aineq.cols = n

\* C18 (final consistency check and policy): the check at the end of
\* generateAll() requires Aineq.rows() = bUpperBound.size() under every
\* policy, and Aineq.rows() = bLowerBound.size() exactly when the policy has
\* UNILATERAL_TO_BILATERAL: with the flag a merge completes only with both
\* lengths right, without it the length of bLowerBound is not looked at, so a
\* merge whose other fields are consistent completes.
C18_FinalCheckPolicy ==
  /\ (ac.status = "live") => NRows(ac.m.Aineq) = Len(ac.m.bUpperBound)
  /\ (ac.status = "live" /\ UNILATERAL_TO_BILATERAL \in ac.aggregationPolicy) =>
       NRows(ac.m.Aineq) = Len(ac.m.bLowerBound)
  /\ (ac.status = "aborted" /\ LoopCompleted
      /\ UNILATERAL_TO_BILATERAL \notin ac.aggregationPolicy
      /\ FinalButLower(ac.m, ac.x_size)) => FALSE

\* the merged fields when the inequality block of the last child is about to
\* be merged: the earlier children, then this child's box and equality block
BeforeLastIneq ==
  LET k == Len(ac.bounds)
      b == CurReps[k]
      pre == MergeAll(ResetMerged(<<>>, ac.x_size), SubSeq(CurReps, 1, k - 1),
                      ac.aggregationPolicy, ac.x_size)
  IN MergeEq(MergeBounds(pre, b, ac.x_size), b, ac.aggregationPolicy)

\* -1.0 * A and -1.0 * v, entry by entry
Negated(rows) == [i \in 1..Len(rows) |-> [c \in DOMAIN rows[i] |-> 0 - rows[i][c]]]
NegatedVec(v) == [i \in 1..Len(v) |-> 0 - v[i]]

\* the last child of the list exposes r > 0 inequality rows with a lower
\* bound only / with both bounds
LastIsLowerOnly ==
  /\ Len(ac.bounds) > 0
  /\ LET b == CurReps[Len(ac.bounds)]
     IN /\ NRows(b.Aineq) > 0 /\ b.Aineq.cols = ac.x_size
        /\ Len(b.bLowerBound) = NRows(b.Aineq) /\ Len(b.bUpperBound) = 0
LastIsBilateral ==
  /\ Len(ac.bounds) > 0
  /\ LET b == CurReps[Len(ac.bounds)]
     IN /\ NRows(b.Aineq) > 0 /\ b.Aineq.cols = ac.x_size
        /\ Len(b.bLowerBound) = NRows(b.Aineq)
        /\ Len(b.bUpperBound) = NRows(b.Aineq)

\* C19 (lower-only child, pure-unilateral mode): without
\* UNILATERAL_TO_BILATERAL, merging a child whose inequality block has only a
\* lower bound l appends the rows -Aineq to the aggregate's Aineq and -l to
\* its bUpperBound, so that Aineq.rows() = bUpperBound.size() holds after the
\* child is merged as it did before.
C19_LowerOnlyUnilateral ==
  (ac.status \in {"live", "aborted"} /\ LoopCompleted
   /\ UNILATERAL_TO_BILATERAL \notin ac.aggregationPolicy /\ LastIsLowerOnly) =>
    LET b == CurReps[Len(ac.bounds)]
        pre == BeforeLastIneq
    IN /\ ac.m.Aineq.rows = pre.Aineq.rows \o Negated(b.Aineq.rows)
       /\ ac.m.bUpperBound = pre.bUpperBound \o NegatedVec(b.bLowerBound)
       /\ (NRows(pre.Aineq) = Len(pre.bUpperBound)) =>
            NRows(ac.m.Aineq) = Len(ac.m.bUpperBound)

LastIsOneSided ==
  /\ Len(ac.bounds) > 0
  /\ LET b == CurReps[Len(ac.bounds)]
         r == NRows(b.Aineq)
     IN /\ r > 0 /\ b.Aineq.cols = ac.x_size
        /\ \/ Len(b.bUpperBound) = r /\ Len(b.bLowerBound) = 0
           \/ Len(b.bUpperBound) = 0 /\ Len(b.bLowerBound) = r

\* C21 (bilateral normalisation): with UNILATERAL_TO_BILATERAL, merging a
\* child whose inequality block has r rows and one side only appends its r
\* rows to Aineq, r entries to bUpperBound and r entries to bLowerBound: the
\* side the child gave is copied as it is, a missing upper side is r times
\* +infinity and a missing lower side r times the most negative value; and
\* after every completed generateAll() in this mode Aineq.rows(),
\* bLowerBound.size() and bUpperBound.size() are equal.
C21_BilateralNormalization ==
  /\ (ac.status = "live" /\ UNILATERAL_TO_BILATERAL \in ac.aggregationPolicy) =>
       /\ NRows(ac.m.Aineq) = Len(ac.m.bLowerBound)
       /\ NRows(ac.m.Aineq) = Len(ac.m.bUpperBound)
  /\ (ac.status \in {"live", "aborted"} /\ LoopCompleted
      /\ UNILATERAL_TO_BILATERAL \in ac.aggregationPolicy /\ LastIsOneSided) =>
       LET b == CurReps[Len(ac.bounds)]
           r == NRows(b.Aineq)
           pre == BeforeLastIneq
           up == IF Len(b.bUpperBound) = 0 THEN [i \in 1..r |-> Infinity]
                 ELSE b.bUpperBound
           lo == IF Len(b.bLowerBound) = 0 THEN [i \in 1..r |-> 0 - DblMax]
                 ELSE b.bLowerBound
       IN /\ ac.status = "live"
          /\ ac.m.Aineq.rows = pre.Aineq.rows \o b.Aineq.rows
          /\ ac.m.bUpperBound = pre.bUpperBound \o up
          /\ ac.m.bLowerBound = pre.bLowerBound \o lo

\* an upper-only child and a lower-only child merged one after the other
C21_Witness ==
  /\ ac.status = "live"
  /\ ac.aggregationPolicy = {UNILATERAL_TO_BILATERAL}
  /\ ac.bounds = <<"ineqU", "ineqL">>
  /\ ac.m.bUpperBound = <<5, Infinity>>
  /\ ac.m.bLowerBound = <<0 - DblMax, -6>>
  /\ NRows(ac.m.Aineq) = 2

\* ------------------------------------------- C22: EQUALITIES_TO_INEQUALITIES
\* the rows the inequality block of child b adds to Aineq
IneqRowsOf(b, policy) ==
  IF ~ExposesIneq(b) THEN <<>>
  ELSE IF UNILATERAL_TO_BILATERAL \in policy \/ Len(b.bLowerBound) = 0
  THEN b.Aineq.rows
  ELSE IF Len(b.bUpperBound) = 0 THEN Negated(b.Aineq.rows)
  ELSE b.Aineq.rows \o Negated(b.Aineq.rows)

\* C22 (policy axis EQUALITIES_TO_INEQUALITIES): with the flag, after every
\* generateAll() the aggregate's equality block is empty, Aeq of 0 rows and
\* beq of length 0, whatever the children expose; without the flag the rows
\* of Aineq are the rows of the children's inequality blocks and no row of a
\* child's equality block.
C22_EqualitiesToInequalitiesAxis ==
  /\ (ac.status \in {"live", "aborted"}
      /\ EQUALITIES_TO_INEQUALITIES \in ac.aggregationPolicy) =>
       NRows(ac.m.Aeq) = 0 /\ ac.m.beq = <<>>
  /\ (ac.status \in {"live", "aborted"} /\ LoopCompleted
      /\ EQUALITIES_TO_INEQUALITIES \notin ac.aggregationPolicy) =>
       ac.m.Aineq.rows =
         Flatten([i \in 1..Len(ac.bounds) |->
                    IneqRowsOf(CurReps[i], ac.aggregationPolicy)])

\* children with equality rows merged under the flag: the rows are in Aineq
C22_Witness ==
  /\ ac.status = "live"
  /\ ac.aggregationPolicy = {EQUALITIES_TO_INEQUALITIES, UNILATERAL_TO_BILATERAL}
  /\ ac.bounds = <<"eq2", "mixed">>
  /\ NRows(ac.m.Aeq) = 0 /\ ac.m.beq = <<>>
  /\ NRows(ac.m.Aineq) = 4

\* ------------------------------------------------ C23: history independence
\* the aggregate a constructor would build now, with the policy and x_size of
\* ac, over the children of ac as they are
FreshAggregate ==
  AfterGenerateAll([NoAggregate("new") EXCEPT !.bounds = ac.bounds,
                                              !.aggregationPolicy = ac.aggregationPolicy,
                                              !.x_size = ac.x_size],
                   cdata, <<>>)

\* C23 (history independence): after any sequence of update(x) calls the
\* merged fields of the aggregate constraint are those of an aggregate freshly
\* constructed with the same policy over the same children in their current
\* state (and the update fails exactly where that construction would); no row
\* of an earlier merge is left in Aeq or Aineq.
C23_HistoryIndependence ==
  (ac.status \in {"live", "aborted"} /\ ac.op = "update") =>
    /\ ac.m = FreshAggregate.m
    /\ ac.status = FreshAggregate.status
    /\ ac.fail = FreshAggregate.fail

\* the last update took rows away from a child: the merged block has shrunk
C23_Witness ==
  /\ ac.status = "live" /\ ac.op = "update"
  /\ ac.aggregationPolicy = {UNILATERAL_TO_BILATERAL}
  /\ ac.bounds = <<"dyn", "ineqB">>
  /\ cworld["dyn"] = 0
  /\ NRows(ac.m.Aineq) = NRows(cdata["ineqB"].Aineq)

\* ------------------------------------------------ C24: one-sided box bounds
\* a child whose box has one side only, or a side of another length than n
BadBox(b, n) ==
  /\ ExposesBox(b)
  /\ Len(b.lowerBound) # n \/ Len(b.upperBound) # n

\* the first child of the list with a bad box, when the children before it
\* keep the Constraint contract
FirstBadBox ==
  {i \in 1..Len(ac.bounds) :
     /\ BadBox(CurReps[i], ac.x_size)
     /\ \A j \in 1..(i - 1) : WellFormed(CurReps[j], ac.x_size)}

\* C24 (one-sided box bounds are rejected): when a child exposes exactly one
\* of lowerBound / upperBound, or either with a length other than x_size,
\* generateAll() does not complete; when the children listed before it are
\* well-formed it fails at the size asserts of the box merge, and the merged
\* box is still the one of those earlier children: the bad bound is neither
\* adopted nor merged.
C24_OneSidedBoxRejected ==
  (ac.status \in {"live", "aborted"} /\ ac.fail \notin {"assert@32", "assert@228"}) =>
    /\ (\E i \in 1..Len(ac.bounds) : BadBox(CurReps[i], ac.x_size)) =>
         ac.status = "aborted"
    /\ \A i \in FirstBadBox :
         LET pre == MergeAll(ResetMerged(<<>>, ac.x_size), SubSeq(CurReps, 1, i - 1),
                             ac.aggregationPolicy, ac.x_size)
         IN /\ ac.fail \in {"assert@109", "assert@110"}
            /\ ac.m.lowerBound = pre.lowerBound
            /\ ac.m.upperBound = pre.upperBound

\* a lower-only box met after a well-formed box was adopted
C24_Witness ==
  /\ ac.status = "aborted" /\ ac.fail = "assert@109"
  /\ ac.bounds = <<"boxA", "boxLow">>
  /\ ac.m.lowerBound = cdata["boxA"].lowerBound
  /\ ac.m.upperBound = cdata["boxA"].upperBound

\* ------------------------------------------------------- C25: empty children
\* a child exposing none of the three representations
IsEmptyChild(b) == ~ExposesBox(b) /\ ~ExposesEq(b) /\ ~ExposesIneq(b)

\* the list of ac without the children that are empty now
NonEmptyBounds == SelectSeq(ac.bounds, LAMBDA k : ~IsEmptyChild(cdata[k]))

\* C25 (empty child): a child exposing no box, no equality row and no
\* inequality row changes no merged field and raises no error, under every
\* policy: the merged fields, and the failed assert if there is one, are
\* those of the merge over the list with the empty children left out; an
\* aggregate whose children are all empty completes with every merged field
\* empty.
C25_EmptyChild ==
  (ac.status \in {"live", "aborted"} /\ ac.fail \notin {"assert@32", "assert@228"}) =>
    LET g == generateAll(<<>>, NonEmptyBounds, cdata, ac.aggregationPolicy,
                         ac.x_size)
    IN /\ ac.m = g
       /\ ac.fail = g.err
       /\ (NonEmptyBounds = <<>>) =>
            /\ ac.status = "live"
            /\ ac.m.lowerBound = <<>> /\ ac.m.upperBound = <<>>
            /\ NRows(ac.m.Aeq) = 0 /\ ac.m.beq = <<>>
            /\ NRows(ac.m.Aineq) = 0
            /\ ac.m.bLowerBound = <<>> /\ ac.m.bUpperBound = <<>>

\* an empty child listed before a child with all three blocks
C25_Witness ==
  /\ ac.status = "live"
  /\ ac.bounds = <<"empty", "mixed">>
  /\ ac.aggregationPolicy = {EQUALITIES_TO_INEQUALITIES, UNILATERAL_TO_BILATERAL}
  /\ NRows(ac.m.Aineq) = 2
  /\ ac.m.lowerBound = cdata["mixed"].lowerBound

\* ------------------------------------------------ C26: well-formed children
\* C26 (well-formed children never trip the merge): when every listed child
\* keeps the Constraint contract (box both empty or both of length x_size,
\* Aeq.rows() = beq.size() with x_size columns, Aineq with x_size columns and
\* each non-empty bound of length Aineq.rows(), at least one side present),
\* generateAll() completes without a failed assert under each of the four
\* policies, pure-unilateral mode with inequality or folded equality rows
\* included.
C26_WellFormedNeverTrips ==
  (ac.status \in {"live", "aborted"} /\ Len(ac.bounds) > 0 /\ AllWellFormed) =>
    ac.status = "live" /\ ac.fail = ""

\* ------------------------------------- C27, C28: the aggregate task's own state
\* C27 (constraints attached to the aggregate survive updates): a constraint
\* pushed onto an AggregatedTask's own constraint list, as
\* (taskA + taskB) << constraint does, is still in its getConstraints() after
\* any later update(x) or generateAll().
C27_AttachedConstraintsSurvive ==
  (at.status = "live") =>
    \A i \in 1..Len(at.attached) :
      \E j \in 1..Len(at.m.constraints) : at.m.constraints[j] = at.attached[i]

\* C28 (weight matrix stays conformant): in every state reached by
\* constructing an AggregatedTask and calling update(x) any number of times,
\* with children that may change their row counts in their own update, the
\* weight matrix W of the aggregate is square with as many rows as the
\* current merged A.
C28_WeightConformant ==
  (at.status = "live") =>
    /\ at.W.cols = NRows(at.W)
    /\ NRows(at.W) = NRows(at.m.A)

\* --------------------------------- C29, C30: CartesianImpedanceCtrl's fields
ZeroTwist == [i \in 1..TwistSize |-> 0]

\* C29 (desired twist is consumed by one update): after every _update(x),
\* after every setReference(desiredPose) and after the constructor the stored
\* desired twist is the zero 6-vector; it becomes non-zero only by
\* setReference(desiredPose, desiredTwist); and an _update makes exactly one
\* call of update_b(), which reads the twist stored before the _update, so
\* that a twist given by setReference is read by the next _update and by no
\* later one.
C29_DesiredTwistConsumed ==
  [][ /\ (ci'.status = "live"
          /\ ci'.op \in {"_update", "setReference(desiredPose)",
                         "CartesianImpedanceCtrl"})
         => ci'.desiredTwist = ZeroTwist
      /\ (ci.status = "live" /\ ci.desiredTwist = ZeroTwist
          /\ ci'.desiredTwist # ZeroTwist)
         => ci'.op = "setReference(desiredPose,desiredTwist)"
      /\ (ci.status = "live" /\ ci'.status = "live" /\ ci'.op = "_update")
         => /\ ci'.calls = <<ci.desiredTwist>>
            /\ ci'.b.desiredTwist = ci.desiredTwist ]_vars

\* an _update has read a non-zero twist and left zero behind
C29_Witness ==
  /\ ci.status = "live" /\ ci.op = "_update"
  /\ ci.calls = <<Ramp(TwistSize, 0, 1)>>
  /\ ci.b.desiredTwist # ZeroTwist
  /\ ci.desiredTwist = ZeroTwist

\* a gain matrix of the size the setters accept; the fields other than the
\* gains and the record of the call
IsGain(M) ==
  /\ M.cols = GainSize /\ NRows(M) = GainSize
  /\ \A r \in 1..NRows(M) : Len(M.rows[r]) = GainSize
OtherFields(o) ==
  [o EXCEPT !.K = Mat(0, <<>>), !.D = Mat(0, <<>>), !.op = "",
            !.argK = Mat(0, <<>>), !.argD = Mat(0, <<>>), !.calls = <<>>]

\* C30 (invalid gains are ignored): setStiffness(K) with a matrix that is not
\* 6x6 leaves the stiffness and every other field as they were and raises no
\* error, and with a 6x6 matrix replaces the stiffness alone; setDamping(D)
\* does the same for the damping; setStiffnessDamping(K, D) applies the two
\* tests independently; getStiffness() and getDamping() are 6x6 in every
\* state of a constructed object.
C30_InvalidGainsIgnored ==
  [][ /\ (ci'.op = "setStiffness")
         => /\ ci'.status = "live" /\ OtherFields(ci') = OtherFields(ci)
            /\ ci'.calls = <<>> /\ ci'.D = ci.D
            /\ ci'.K = IF IsGain(ci'.argK) THEN ci'.argK ELSE ci.K
      /\ (ci'.op = "setDamping")
         => /\ ci'.status = "live" /\ OtherFields(ci') = OtherFields(ci)
            /\ ci'.calls = <<>> /\ ci'.K = ci.K
            /\ ci'.D = IF IsGain(ci'.argD) THEN ci'.argD ELSE ci.D
      /\ (ci'.op = "setStiffnessDamping")
         => /\ ci'.status = "live" /\ OtherFields(ci') = OtherFields(ci)
            /\ ci'.calls = <<>>
            /\ ci'.K = IF IsGain(ci'.argK) THEN ci'.argK ELSE ci.K
            /\ ci'.D = IF IsGain(ci'.argD) THEN ci'.argD ELSE ci.D
      /\ (ci'.status = "live")
         => IsGain(CIC_getStiffness(ci')) /\ IsGain(CIC_getDamping(ci')) ]_vars

\* setStiffnessDamping took the stiffness and ignored a damping of 5 rows
C30_Witness ==
  /\ ci.status = "live" /\ ci.op = "setStiffnessDamping"
  /\ IsGain(ci.argK) /\ ~IsGain(ci.argD) /\ NRows(ci.argD) = GainSize - 1
  /\ ci.K = ci.argK /\ ci.K # Scale(Eye(GainSize), DefaultStiffness)
  /\ ci.D = Scale(Eye(GainSize), DefaultDamping)

====
